---- MODULE Spec2Model ----
(***************************************************************************)
(* DPoR consensus engine of CPC-Yao/chain: header-seal verification, the   *)
(* signer, the committee snapshot and the LBFT2 protocol handler.          *)
(*                                                                         *)
(* The module holds several specifications over one set of variables; each *)
(* specification leaves the variables of the other components untouched.   *)
(*   Spec      header verifier (verifyHeader .. verifySeal) and its        *)
(*             signature cache                                             *)
(*   SpecSign  signHeader and the signed-height map                        *)
(*   SpecSnap  committee snapshot: genesis, apply, isLeader                *)
(*   SpecFSM   handleLBFT2Msg over the per-height state machine            *)
(*   SpecFSMFair  SpecFSM with the fairness of message delivery            *)
(*   SpecQuorum  the quorum predicate percentagePBFT                       *)
(*   SpecStore   snapshot resolution over the cache, the store and chain   *)
(*   SpecHandler the goroutines of the peers calling handleLBFT2Msg         *)
(*   SpecShake   PvHandshake: its two goroutines, the timer and the return  *)
(*   SpecTime    verifyHeader while the wall clock advances                 *)
(***************************************************************************)
EXTENDS Integers, Sequences, FiniteSets, TLC

VARIABLES
    signatures,     \* Dpor.signatures: cache  header hash -> (address -> signature)
    vlast,          \* the last verifyHeader call: header, result, cache seen by acceptSigs
    vcount,         \* number of verifyHeader calls made so far
    vnumber,        \* the block height under verification in this run
    dporSigner,     \* Dpor.signer: the address of the local signing key
    signedBlocks,   \* Dpor.signedBlocks: height -> hash
    produced,       \* every (number, hash) the local key has signed (signFn calls)
    slast,          \* the last signHeader call: header before, header after, result
    scount,         \* number of signHeader / ecrecover calls made so far
    snap,           \* the DporSnapshot under derivation
    held,           \* the last apply call: its headers, its receiver before and now
    dlast,          \* the last derivation made both in one call and in two
    lres,           \* the last isLeader call: signer, number, answer
    fsm,            \* the per-height state machine of the handler
    timer,          \* impeach timer of the height: "armed" | "expired"
    pendingImpeachBlockCh, \* Handler.pendingImpeachBlockCh (a block or NoBlock)
    bcast,          \* everything the handler has broadcast to the committee
    inserted,       \* every block the handler handed to InsertChain
    blockBcast,     \* every block the handler handed to BroadcastBlock
    synced,         \* peers the handler asked to sync from
    unknownAncestorBlocks, \* Handler.unknownAncestorBlocks
    knownBlocks,    \* Handler.knownBlocks
    qlast,          \* the last percentagePBFT call: n, N, answer
    dporRecents,    \* Dpor.recents: cache  block hash -> snapshot
    db,             \* Dpor.db: the store, key -> blob
    electMode,      \* what Elect yields when candidates are short, fixed for the build
    resolved,       \* every snapshot a snapshot() call has returned
    derived,        \* every checkpoint a snapshot() call has derived a snapshot of
    rlast,          \* the last snapshot / store / loadSnapshot call
    inflight,       \* peer -> the message its goroutine has read and not yet handled
    arrivals,       \* the messages in the order the handler received them
    applied,        \* the messages in the order they were put to the machine
    hlast,          \* the last handleLBFT2Msg call that returned: message, peer, effect
    hsIn,           \* PvHandshake: what the peer sends and what the own send yields
    hsPc,           \* PvHandshake: position of the caller and of its two goroutines
    errs,           \* PvHandshake: the channel errs (capacity 2)
    hsRes,          \* PvHandshake: the named results isValidator, address, err
    hsRet,          \* PvHandshake: what the caller got back
    clock,          \* time.Now().Unix()
    tlast,          \* the last verifyHeader call made under the clock
    rejected,       \* the headers a verifyHeader call has refused as ErrFutureBlock
    accepted,       \* the headers a verifyHeader call has accepted so far
    gdb,            \* the chain database: canonical hash of block 0, stored chain config
    glast,          \* the last SetupGenesisBlock call: argument, database before, results
    currentBlock,   \* dpor.GetCurrentBlock().Number, the head of the chain
    block,          \* dialLoop: its local variable block (a number or NoHead)
    dials,          \* the numbers DialAllRemoteProposers was started with, in order
    quitSync,       \* Handler.quitSync: "open" | "closed"
    dialPc,         \* dialLoop: "notStarted" | "running" | "returned"
    ticked,         \* the last tick of dialLoop: head seen, head at the tick before, dialed
    candidates,     \* Campaign.candidates: address -> CandidateInfo
    campaignSnapshots, \* Campaign.campaignSnapshots: view -> Set.Data
    viewIdx,        \* Campaign.viewIdx
    paid,           \* wei the contract has transferred to each address
    clast           \* the last call of the contract: function, sender, what it found

vars == <<signatures, vlast, vcount, vnumber, dporSigner, signedBlocks, produced, slast, scount,
          snap, held, dlast, lres, fsm, timer, pendingImpeachBlockCh, bcast, inserted, blockBcast,
          synced, unknownAncestorBlocks, knownBlocks, qlast,
          dporRecents, db, electMode, resolved, derived, rlast,
          inflight, arrivals, applied, hlast, hsIn, hsPc, errs, hsRes, hsRet,
          clock, tlast, rejected,
          accepted, gdb, glast, currentBlock, block, dials, quitSync, dialPc, ticked,
          candidates, campaignSnapshots, viewIdx, paid, clast>>

verifyVars == <<signatures, vlast, vcount, vnumber>>
signVars   == <<dporSigner, signedBlocks, produced, slast, scount>>
snapVars   == <<snap, held, dlast, lres>>
fsmVars    == <<fsm, timer, pendingImpeachBlockCh, bcast, inserted, blockBcast,
                synced, unknownAncestorBlocks, knownBlocks>>
utilVars   == <<qlast>>
storeVars  == <<dporRecents, db, electMode, resolved, derived, rlast>>
handlerVars == <<inflight, arrivals, applied, hlast>>
shakeVars  == <<hsIn, hsPc, errs, hsRes, hsRet>>
timeVars   == <<clock, tlast, rejected>>
cacheVars  == <<accepted>>
genesisVars == <<gdb, glast>>
dialVars   == <<currentBlock, block, dials, quitSync, dialPc, ticked>>
campaignVars == <<candidates, campaignSnapshots, viewIdx, paid, clast>>
tailVars   == <<cacheVars, genesisVars, dialVars, campaignVars>>
afterStoreVars == <<handlerVars, shakeVars, timeVars, tailVars>>
laterVars  == <<utilVars, storeVars, afterStoreVars>>

----------------------------------------------------------------------------
(* Configuration and protocol constants                                     *)

EpochLength == 4
checkpointInterval == 4
pctA == 2
pctB == 3
extraVanity == 32
extraSeal == 65
AddressLength == 20
diffInTurn == 2
diffNoTurn == 1
Period == 1

(* Bounds of the model *)
MaxVerifies == 2
MaxSignCalls == 4
MaxNumber == 5

ZeroAddress == "0x0"
Committee == <<"A", "B", "C", "D">>
Outsider == "X"
JunkAddress == "J"
Addresses == {"A", "B", "C", "D", Outsider, ZeroAddress}

Range(s) == {s[i] : i \in 1..Len(s)}

----------------------------------------------------------------------------
(* Signatures.  A 65-byte signature is all zero, a byte string ECDSA       *)
(* recovery rejects, or a signature made by a key over a digest.           *)

NoDigest == <<>>
ZeroSig == [kind |-> "zero", by |-> "", over |-> NoDigest]
BadSig == [kind |-> "bad", by |-> "", over |-> NoDigest]
SigBy(a, digest) == [kind |-> "sig", by |-> a, over |-> digest]

\* crypto.Ecrecover followed by Keccak256(pubkey[1:])[12:]: the signer when the
\* signature was made over this digest, an unrelated address otherwise.
RecoverErr(sig) == sig.kind # "sig"
Recover(digest, sig) == IF sig.over = digest THEN sig.by ELSE JunkAddress

----------------------------------------------------------------------------
(* Headers                                                                  *)

\* A digest that takes the whole of Extra, its last 65 bytes included.
sigHashWithSeal(h) ==
    <<h.number, h.parentHash, h.time, h.difficulty, h.mixZero, h.extraLen,
      h.extraSigners, h.body, h.seal>>

\* sigHash: every field but the last 65 bytes of Extra and Extra2.
sigHash(h) ==
    <<h.number, h.parentHash, h.time, h.difficulty, h.mixZero, h.extraLen,
      h.extraSigners, h.body>>

\* Header.Hash: every field, Extra with its seal included, but Extra2.
HeaderHash(h) ==
    <<h.number, h.parentHash, h.time, h.difficulty, h.mixZero, h.extraLen,
      h.extraSigners, h.body, h.seal>>

\* DecodedExtra2: the signature vector as the byte string it holds; "ragged" says
\* that its length is no multiple of 65.
Extra2(slots, ragged, decodable) ==
    [slots |-> slots, ragged |-> ragged, decodable |-> decodable]

----------------------------------------------------------------------------
(* Committee snapshot (DporSnapshot)                                        *)

Snapshot(number, hash, signers, cands, recents) ==
    [Number |-> number, Hash |-> hash, Signers |-> signers,
     Candidates |-> cands, Recents |-> recents]

signers(s) == s.Signers

\* signerRound: the 0-based index of the first entry equal to signer, -1 with
\* errSignerNotInCommittee when there is none.
signerRound(s, signer) ==
    LET hits == {i \in 1..Len(signers(s)) : signers(s)[i] = signer}
    IN  IF hits = {}
        THEN [round |-> -1, err |-> "errSignerNotInCommittee"]
        ELSE [round |-> (CHOOSE i \in hits : \A j \in hits : i <= j) - 1, err |-> "nil"]

isSigner(s, signer) == signerRound(s, signer).err = "nil"

isLeaderWrongOffset(s, signer, number) ==
    IF number = 0
    THEN [ok |-> FALSE, err |-> "errGenesisBlockNumber"]
    ELSE LET r == signerRound(s, signer)
         IN  IF r.err # "nil"
             THEN [ok |-> FALSE, err |-> r.err]
             ELSE [ok |-> r.round = number % EpochLength, err |-> "nil"]

isLeader(s, signer, number) ==
    IF number = 0
    THEN [ok |-> FALSE, err |-> "errGenesisBlockNumber"]
    ELSE LET r == signerRound(s, signer)
         IN  IF r.err # "nil"
             THEN [ok |-> FALSE, err |-> r.err]
             ELSE [ok |-> r.round = (number - 1) % EpochLength, err |-> "nil"]

----------------------------------------------------------------------------
(* Signature cache and recovery (dporUtil)                                  *)

CacheKnown(c, hash) == \E e \in c : e.hash = hash
CacheHas(c, hash, a) == \E e \in c : e.hash = hash /\ e.addr = a
CachePut(c, hash, a, sig) ==
    {e \in c : ~(e.hash = hash /\ e.addr = a)}
        \cup {[hash |-> hash, addr |-> a, sig |-> sig]}

\* The loop of ecrecover over the slots of the signature vector: a zero slot is
\* skipped, a slot that does not recover ends the call with what was cached so far.
RECURSIVE ecrecoverSigners(_, _, _, _)
ecrecoverSigners(h, i, recovered, c) ==
    IF i > Len(h.extra2.slots)
    THEN [err |-> "nil", signers |-> recovered, cache |-> c]
    ELSE LET sig == h.extra2.slots[i]
         IN  IF sig.kind = "zero"
             THEN ecrecoverSigners(h, i + 1, recovered, c)
             ELSE IF RecoverErr(sig)
             THEN [err |-> "errInvalidSignature", signers |-> recovered, cache |-> c]
             ELSE LET signer == Recover(sigHash(h), sig)
                  IN  ecrecoverSigners(h, i + 1, Append(recovered, signer),
                                       CachePut(c, HeaderHash(h), signer, sig))

ecrecover(h, c) ==
    IF h.extraLen < extraSeal
    THEN [err |-> "errMissingSignature", leader |-> ZeroAddress, signers |-> <<>>, cache |-> c]
    ELSE IF ~h.extra2.decodable
    THEN [err |-> "errExtra2Decode", leader |-> ZeroAddress, signers |-> <<>>, cache |-> c]
    ELSE IF RecoverErr(h.seal)
    THEN [err |-> "errInvalidSignature", leader |-> ZeroAddress, signers |-> <<>>, cache |-> c]
    ELSE LET leader == Recover(sigHash(h), h.seal)
             c1 == CachePut(c, HeaderHash(h), leader, h.seal)
         IN  IF h.extra2.ragged
             THEN [err |-> "errInvalidSigBytes", leader |-> leader, signers |-> <<>>, cache |-> c1]
             ELSE LET r == ecrecoverSigners(h, 1, <<>>, c1)
                  IN  [err |-> r.err,
                       leader |-> IF r.err = "nil" THEN leader ELSE ZeroAddress,
                       signers |-> r.signers, cache |-> r.cache]

percentagePBFTMajority(n, N) == 2 * n >= N

percentagePBFTAtLeast(n, N) == pctB * n >= pctA * N

percentagePBFT(n, N) == pctB * n > pctA * N

\* acceptSigs: one count per entry of the committee list whose address has a
\* signature cached under the header's hash.
acceptSigsAnyAddress(h, c, committee, epochL) ==
    IF CacheKnown(c, HeaderHash(h))
    THEN LET numSigs == Cardinality({e \in c : e.hash = HeaderHash(h)})
         IN  [accept |-> percentagePBFT(numSigs, epochL), err |-> "nil", numSigs |-> numSigs]
    ELSE [accept |-> FALSE, err |-> "errNoSigsInCache", numSigs |-> 0]

acceptSigs(h, c, committee, epochL) ==
    IF CacheKnown(c, HeaderHash(h))
    THEN LET numSigs == Cardinality({i \in 1..Len(committee) :
                                        CacheHas(c, HeaderHash(h), committee[i])})
         IN  [accept |-> percentagePBFT(numSigs, epochL), err |-> "nil", numSigs |-> numSigs]
    ELSE [accept |-> FALSE, err |-> "errNoSigsInCache", numSigs |-> 0]

----------------------------------------------------------------------------
(* Header verifier (dporHelper), normal mode                                *)

\* The local chain of a verification run: the block at height vnumber - 1, hash
\* ParentHash, is the head; nothing else is known.
ParentHash == "P"
ParentTime == 10 * Period
ParentHeader == [number |-> vnumber - 1, hash |-> ParentHash, time |-> ParentTime]
Now == ParentTime + 5 * Period

GetHeader(hash, number) ==
    IF hash = ParentHash /\ number = ParentHeader.number
    THEN [found |-> TRUE, header |-> ParentHeader]
    ELSE [found |-> FALSE, header |-> ParentHeader]

\* snapshot(number, hash) as the verifier sees it: the snapshot of the head names
\* the committee, any other (number, hash) has no header to derive it from.
parentSnapshot(number, hash) ==
    IF GetHeader(hash, number).found
    THEN [err |-> "nil", snap |-> Snapshot(number, hash, Committee, <<>>, <<>>)]
    ELSE [err |-> "ErrUnknownAncestor", snap |-> Snapshot(0, "", <<>>, <<>>, <<>>)]

SealResult(err, c, numSigs) == [err |-> err, cache |-> c, numSigs |-> numSigs]

turnCheckSwapped(inturn, difficulty) ==
    IF inturn /\ difficulty # diffNoTurn THEN "errInvalidDifficulty"
    ELSE IF ~inturn /\ difficulty # diffInTurn THEN "errInvalidDifficulty"
    ELSE "nil"

\* verifySeal lines 265-272: the difficulty the turn of the leader asks for.
turnCheck(inturn, difficulty) ==
    IF inturn /\ difficulty # diffInTurn THEN "errInvalidDifficulty"
    ELSE IF ~inturn /\ difficulty # diffNoTurn THEN "errInvalidDifficulty"
    ELSE "nil"

\* verifySeal without the check of the leader after the turn check.
verifySealAnyLeader(h, c) ==
    IF h.number = 0 THEN SealResult("errUnknownBlock", c, 0)
    ELSE LET ec == ecrecover(h, c)
         IN  IF ec.err # "nil" THEN SealResult(ec.err, ec.cache, 0)
             ELSE LET ps == parentSnapshot(h.number - 1, h.parentHash)
                  IN  IF ps.err # "nil" THEN SealResult(ps.err, ec.cache, 0)
                      ELSE LET il == isLeader(ps.snap, ec.leader, h.number)
                               tc == turnCheck(il.ok, h.difficulty)
                               acc == acceptSigs(h, ec.cache, signers(ps.snap), EpochLength)
                           IN  IF tc # "nil" THEN SealResult(tc, ec.cache, 0)
                               ELSE IF acc.err # "nil" THEN SealResult(acc.err, ec.cache, 0)
                               ELSE IF ~acc.accept
                               THEN SealResult("ErrNotEnoughSigs", ec.cache, acc.numSigs)
                               ELSE SealResult("nil", ec.cache, acc.numSigs)

verifySeal(h, c) ==
    IF h.number = 0 THEN SealResult("errUnknownBlock", c, 0)
    ELSE LET ec == ecrecover(h, c)
         IN  IF ec.err # "nil" THEN SealResult(ec.err, ec.cache, 0)
             ELSE LET ps == parentSnapshot(h.number - 1, h.parentHash)
                  IN  IF ps.err # "nil" THEN SealResult(ps.err, ec.cache, 0)
                      ELSE LET il == isLeader(ps.snap, ec.leader, h.number)
                               tc == turnCheck(il.ok, h.difficulty)
                               acc == acceptSigs(h, ec.cache, signers(ps.snap), EpochLength)
                           IN  IF tc # "nil" THEN SealResult(tc, ec.cache, 0)
                               ELSE IF il.err # "nil" THEN SealResult(il.err, ec.cache, 0)
                               ELSE IF ~il.ok THEN SealResult("ErrUnauthorized", ec.cache, 0)
                               ELSE IF acc.err # "nil" THEN SealResult(acc.err, ec.cache, 0)
                               ELSE IF ~acc.accept
                               THEN SealResult("ErrNotEnoughSigs", ec.cache, acc.numSigs)
                               ELSE SealResult("nil", ec.cache, acc.numSigs)

VerifyResult(err, seal, c, numSigs) ==
    [err |-> err, seal |-> seal, cache |-> c, numSigs |-> numSigs]

\* The committee bytes the snapshot asks of Extra: Epoch slots of 20 bytes, the
\* signers copied in, the rest zero.
signersBytes(s) ==
    [i \in 1..EpochLength |-> IF i <= Len(signers(s)) THEN signers(s)[i] ELSE ZeroAddress]

verifyCascadingFieldsStrictlyLater(h, c) ==
    IF h.number = 0 THEN VerifyResult("nil", "notrun", c, 0)
    ELSE LET p == GetHeader(h.parentHash, h.number - 1)
         IN  IF ~p.found THEN VerifyResult("ErrUnknownAncestor", "notrun", c, 0)
             ELSE IF p.header.time + Period >= h.time
             THEN VerifyResult("ErrInvalidTimestamp", "notrun", c, 0)
             ELSE LET r == verifySeal(h, c)
                  IN  VerifyResult(r.err, r.err, r.cache, r.numSigs)

verifyCascadingFields(h, c) ==
    IF h.number = 0 THEN VerifyResult("nil", "notrun", c, 0)
    ELSE LET p == GetHeader(h.parentHash, h.number - 1)
         IN  IF ~p.found THEN VerifyResult("ErrUnknownAncestor", "notrun", c, 0)
             ELSE IF p.header.time + Period > h.time
             THEN VerifyResult("ErrInvalidTimestamp", "notrun", c, 0)
             ELSE LET ps == parentSnapshot(h.number - 1, h.parentHash)
                  IN  IF ps.err # "nil" THEN VerifyResult(ps.err, "notrun", c, 0)
                      ELSE IF h.extraSigners # signersBytes(ps.snap)
                      THEN VerifyResult("errInvalidSigners", "notrun", c, 0)
                      ELSE LET r == verifySeal(h, c)
                           IN  VerifyResult(r.err, r.err, r.cache, r.numSigs)

verifyHeaderBeforeNow(h, c, now) ==
    IF h.time >= now THEN VerifyResult("ErrFutureBlock", "notrun", c, 0)
    ELSE verifyCascadingFields(h, c)

verifyHeader(h, c, now) ==
    IF h.time > now THEN VerifyResult("ErrFutureBlock", "notrun", c, 0)
    ELSE IF h.extraLen < extraVanity THEN VerifyResult("errMissingVanity", "notrun", c, 0)
    ELSE IF h.extraLen < extraVanity + extraSeal
    THEN VerifyResult("errMissingSignature", "notrun", c, 0)
    ELSE IF (h.extraLen - extraVanity - extraSeal) % AddressLength # 0
    THEN VerifyResult("errInvalidSigners", "notrun", c, 0)
    ELSE IF ~h.mixZero THEN VerifyResult("errInvalidMixHash", "notrun", c, 0)
    ELSE IF h.number > 0 /\ h.difficulty # diffInTurn /\ h.difficulty # diffNoTurn
    THEN VerifyResult("errInvalidDifficulty", "notrun", c, 0)
    ELSE verifyCascadingFields(h, c)

----------------------------------------------------------------------------
(* Headers offered to the verifier                                          *)

WellFormedExtraLen == extraVanity + EpochLength * AddressLength + extraSeal

CoreHeader(n, d) ==
    [number |-> n, parentHash |-> ParentHash, time |-> ParentTime + Period,
     difficulty |-> d, mixZero |-> TRUE, extraLen |-> WellFormedExtraLen,
     extraSigners |-> Committee, body |-> "b1", seal |-> ZeroSig,
     extra2 |-> Extra2(<<>>, FALSE, TRUE)]

SealedBy(h, a) == [h EXCEPT !.seal = SigBy(a, sigHash(h))]

\* The vector in which exactly the committee members of S signed, each in its slot.
VectorOf(h, S) ==
    [i \in 1..EpochLength |->
        IF Committee[i] \in S THEN SigBy(Committee[i], sigHash(h)) ELSE ZeroSig]

WithVector(h, slots) == [h EXCEPT !.extra2 = Extra2(slots, FALSE, TRUE)]

InTurnOf(n) == Committee[((n - 1) % EpochLength) + 1]
NextOf(n) == Committee[(n % EpochLength) + 1]

SignerSets == {{}, {"B"}, {"C"}, {"B", "C"}, {"C", "D"}, {"B", "C", "D"}, {"A", "B", "C"}}

OddVectors(h) ==
    { <<SigBy(Outsider, sigHash(h)), SigBy("B", sigHash(h)), ZeroSig, ZeroSig>>,
      <<SigBy("B", <<"other">>), SigBy("C", sigHash(h)), ZeroSig, ZeroSig>>,
      <<SigBy("B", sigHash(h)), SigBy("B", sigHash(h)), SigBy("C", sigHash(h)), ZeroSig>>,
      <<SigBy("B", sigHash(h)), BadSig, SigBy("C", sigHash(h)), SigBy("D", sigHash(h))>>,
      <<SigBy(Outsider, sigHash(h)), SigBy("B", sigHash(h)), SigBy("C", sigHash(h)),
        SigBy("D", sigHash(h))>> }

\* Structurally valid headers of height n: every difficulty, sealed by the in-turn
\* proposer with every vector above, or by another member or an outsider with
\* an empty or a full vector.
SealedHeaders(n, sealers) ==
    {SealedBy(CoreHeader(n, d), a) : d \in {diffInTurn, diffNoTurn}, a \in sealers}

ValidShapeHeaders(n) ==
    UNION {{WithVector(h, VectorOf(h, S)) : S \in SignerSets}
             \cup {WithVector(h, v) : v \in OddVectors(h)} :
                h \in SealedHeaders(n, {InTurnOf(n)})}
      \cup UNION {{WithVector(h, VectorOf(h, S)) : S \in {{}, {"B", "C", "D"}}} :
                h \in SealedHeaders(n, {NextOf(n), Outsider})}

\* One header per structural rule of verifyHeader / verifyCascadingFields /
\* ecrecover that it breaks, each sealed in turn and signed by B, C and D.
Signed(core, n) ==
    LET h == SealedBy(core, InTurnOf(n)) IN WithVector(h, VectorOf(h, {"B", "C", "D"}))

BrokenHeaders(n) ==
    LET c == CoreHeader(n, diffInTurn)
        good == Signed(c, n)
    IN  { Signed([c EXCEPT !.time = Now + 1], n),
          Signed([c EXCEPT !.time = ParentTime], n),
          Signed([c EXCEPT !.extraLen = extraVanity - 1], n),
          Signed([c EXCEPT !.extraLen = extraVanity + extraSeal - 1], n),
          Signed([c EXCEPT !.extraLen = WellFormedExtraLen + 1], n),
          Signed([c EXCEPT !.mixZero = FALSE], n),
          Signed([c EXCEPT !.difficulty = diffInTurn + 1], n),
          Signed([c EXCEPT !.parentHash = "Q"], n),
          Signed([c EXCEPT !.number = n + 1], n + 1),
          Signed([c EXCEPT !.number = 0], n),
          Signed([c EXCEPT !.extraSigners = <<"A", "B", "C", Outsider>>], n),
          [good EXCEPT !.seal = BadSig],
          [good EXCEPT !.extra2 = Extra2(good.extra2.slots, TRUE, TRUE)],
          [good EXCEPT !.extra2 = Extra2(good.extra2.slots, FALSE, FALSE)] }

VerifyInputs(n) == ValidShapeHeaders(n) \cup BrokenHeaders(n)

VerifyNumbers == {5, 6}

----------------------------------------------------------------------------
(* Spec: verifyHeader calls sharing one signature cache                      *)

NoHeader == CoreHeader(0, 0)
NoCall == [h |-> NoHeader, err |-> "none", seal |-> "none", numSigs |-> 0]

SignIdle ==
    /\ dporSigner = "none"
    /\ signedBlocks = <<>>
    /\ produced = {}
    /\ slast = "none"
    /\ scount = 0
SnapIdle ==
    /\ snap = "none"
    /\ held = "none"
    /\ dlast = "none"
    /\ lres = "none"
FsmIdle ==
    /\ fsm = "none"
    /\ timer = "none"
    /\ pendingImpeachBlockCh = "none"
    /\ bcast = {}
    /\ inserted = {}
    /\ blockBcast = {}
    /\ synced = {}
    /\ unknownAncestorBlocks = {}
    /\ knownBlocks = {}
VerifyIdle ==
    /\ signatures = {}
    /\ vlast = "none"
    /\ vcount = 0
    /\ vnumber = 0
UtilIdle ==
    /\ qlast = "none"
StoreIdle ==
    /\ dporRecents = <<>>
    /\ db = <<>>
    /\ electMode = "none"
    /\ resolved = {}
    /\ derived = {}
    /\ rlast = "none"
HandlerIdle ==
    /\ inflight = "none"
    /\ arrivals = <<>>
    /\ applied = <<>>
    /\ hlast = "none"
ShakeIdle ==
    /\ hsIn = "none"
    /\ hsPc = "none"
    /\ errs = <<>>
    /\ hsRes = "none"
    /\ hsRet = "none"
TimeIdle ==
    /\ clock = 0
    /\ tlast = "none"
    /\ rejected = {}
CacheIdle ==
    /\ accepted = {}
GenesisIdle ==
    /\ gdb = "none"
    /\ glast = "none"
DialIdle ==
    /\ currentBlock = 0
    /\ block = "none"
    /\ dials = <<>>
    /\ quitSync = "none"
    /\ dialPc = "none"
    /\ ticked = "none"
CampaignIdle ==
    /\ candidates = <<>>
    /\ campaignSnapshots = <<>>
    /\ viewIdx = 0
    /\ paid = <<>>
    /\ clast = "none"
TailIdle == CacheIdle /\ GenesisIdle /\ DialIdle /\ CampaignIdle
AfterStoreIdle == HandlerIdle /\ ShakeIdle /\ TimeIdle /\ TailIdle
LaterIdle == UtilIdle /\ StoreIdle /\ AfterStoreIdle

Init ==
    /\ signatures = {}
    /\ vlast = NoCall
    /\ vcount = 0
    /\ vnumber \in VerifyNumbers
    /\ SignIdle /\ SnapIdle /\ FsmIdle /\ LaterIdle

\* Dpor.VerifyHeader(chain, header, seal = true): one header through the pipeline.
VerifyHeader(h) ==
    /\ vcount < MaxVerifies
    /\ \E r \in {verifyHeader(h, signatures, Now)} :
           /\ signatures' = r.cache
           /\ vlast' = [h |-> h, err |-> r.err, seal |-> r.seal, numSigs |-> r.numSigs]
    /\ vcount' = vcount + 1
    /\ UNCHANGED <<vnumber, signVars, snapVars, fsmVars, laterVars>>

Next == \E h \in VerifyInputs(vnumber) : VerifyHeader(h)

Spec == Init /\ [][Next]_vars

----------------------------------------------------------------------------
(* Properties of the verifier                                               *)

\* The validator signatures a header carries in its own vector: the committee
\* members that signed its digest in some slot.
OwnValidatorSigs(h) ==
    {a \in Range(Committee) :
        \E i \in 1..Len(h.extra2.slots) : h.extra2.slots[i] = SigBy(a, sigHash(h))}

\* The entries of the committee list with a signature in the cache under the hash
\* of h.
CachedCommitteeSigs(h) ==
    {i \in 1..Len(Committee) : CacheHas(signatures, HeaderHash(h), Committee[i])}

SealAccepted == vlast.seal = "nil"

PassesFieldChecks(h) ==
    /\ h.number > 0
    /\ h.time <= Now
    /\ h.extraLen >= extraVanity + extraSeal
    /\ (h.extraLen - extraVanity - extraSeal) % AddressLength = 0
    /\ h.mixZero
    /\ h.parentHash = ParentHash /\ h.number = vnumber
    /\ h.time >= ParentTime + Period
    /\ h.extraSigners = Committee

\* Every slot of the signature vector is zero or a signature.
VectorWellFormed(h) ==
    /\ h.extra2.decodable /\ ~h.extra2.ragged
    /\ \A i \in 1..Len(h.extra2.slots) : h.extra2.slots[i].kind # "bad"

\* The header passes every check that precedes the turn check of verifySeal.
ReachesTurnCheck(h) ==
    /\ PassesFieldChecks(h)
    /\ h.difficulty \in {diffInTurn, diffNoTurn}
    /\ ~RecoverErr(h.seal)
    /\ VectorWellFormed(h)

LeaderOf(h) == Recover(sigHash(h), h.seal)

DifficultyDisagrees(h) ==
    IF LeaderOf(h) = Committee[((h.number - 1) % EpochLength) + 1]
    THEN h.difficulty # diffInTurn
    ELSE h.difficulty # diffNoTurn

\* C6: a header that reaches the turn check and whose difficulty disagrees with the
\* turn of its recovered leader (DIFF_IN_TURN iff the leader is
\* proposers[(number-1) mod Epoch]) is rejected with errInvalidDifficulty.
C6_TurnDifficulty ==
    (vcount > 0 /\ ReachesTurnCheck(vlast.h) /\ DifficultyDisagrees(vlast.h))
        => vlast.err = "errInvalidDifficulty"

\* Number 5 sealed by B with DIFF_IN_TURN over [A, B, C, D].
C6_Witness ==
    /\ vlast.h.number = 5
    /\ ReachesTurnCheck(vlast.h)
    /\ LeaderOf(vlast.h) = "B"
    /\ vlast.h.difficulty = diffInTurn
    /\ vlast.seal = "errInvalidDifficulty"

\* Structural validity: the fields verifyHeader and verifyCascadingFields look at,
\* and a signature vector of Epoch slots, each zero or a signature.
StructurallyValid(h) ==
    /\ PassesFieldChecks(h)
    /\ VectorWellFormed(h)
    /\ Len(h.extra2.slots) = EpochLength

\* C7: a structurally valid header sealed by the in-turn proposer with
\* DIFF_IN_TURN whose vector carries a quorum of validator signatures is accepted.
C7_InTurnQuorumAccepted ==
    (/\ vcount > 0
     /\ StructurallyValid(vlast.h)
     /\ ~RecoverErr(vlast.h.seal)
     /\ LeaderOf(vlast.h) = InTurnOf(vlast.h.number)
     /\ vlast.h.difficulty = diffInTurn
     /\ pctB * Cardinality(OwnValidatorSigs(vlast.h)) > pctA * EpochLength)
        => vlast.err = "nil"

\* Epoch 4, proposers [A, B, C, D], number 5 sealed by A with DIFF_IN_TURN and
\* three validator signatures.
C7_Witness ==
    /\ vlast.h.number = 5
    /\ StructurallyValid(vlast.h)
    /\ LeaderOf(vlast.h) = "A"
    /\ vlast.h.difficulty = diffInTurn
    /\ Cardinality(OwnValidatorSigs(vlast.h)) = 3
    /\ vlast.err = "nil"

\* The addresses the non-zero slots of the signature vector of h recover to.
VectorSigners(h) ==
    {Recover(sigHash(h), h.extra2.slots[i]) :
        i \in {j \in 1..Len(h.extra2.slots) : h.extra2.slots[j].kind = "sig"}}

\* C11: a header is accepted by the verifier only if every non-zero signature of
\* its signature vector recovers to a member of the committee of its height.
C11_VectorSignersInCommittee ==
    (vcount > 0 /\ vlast.err = "nil") =>
        /\ \A i \in 1..Len(vlast.h.extra2.slots) : vlast.h.extra2.slots[i].kind # "bad"
        /\ VectorSigners(vlast.h) \subseteq Range(Committee)

\* The last header verified is structurally valid and carries the seal of the
\* in-turn proposer with DIFF_IN_TURN.
InTurnSealed ==
    /\ vcount > 0
    /\ StructurallyValid(vlast.h)
    /\ ~RecoverErr(vlast.h.seal)
    /\ LeaderOf(vlast.h) = InTurnOf(vlast.h.number)
    /\ vlast.h.difficulty = diffInTurn

SameButSeals(h1, h2) ==
    [h1 EXCEPT !.seal = ZeroSig, !.extra2 = Extra2(<<>>, FALSE, TRUE)]
        = [h2 EXCEPT !.seal = ZeroSig, !.extra2 = Extra2(<<>>, FALSE, TRUE)]

NoTurnWrongLeader ==
    /\ vcount > 0
    /\ ReachesTurnCheck(vlast.h)
    /\ vlast.h.difficulty = diffNoTurn
    /\ LeaderOf(vlast.h) # InTurnOf(vlast.h.number)

----------------------------------------------------------------------------
(* SpecSign: signHeader calls of one engine                                 *)

NoSign == [h |-> NoHeader, after |-> NoHeader, err |-> "none"]

InitSign ==
    /\ signatures = {}
    /\ vlast = NoCall
    /\ vcount = 0
    /\ vnumber \in VerifyNumbers
    /\ dporSigner \in {"B", Outsider}
    /\ signedBlocks = <<>>
    /\ produced = {}
    /\ slast = NoSign
    /\ scount = 0
    /\ SnapIdle /\ FsmIdle /\ LaterIdle

\* Proposals of height n as they reach a validator: two different blocks sealed by
\* the in-turn proposer, bare or already signed by C and D, and one on an unknown parent.
Proposal(n, body) == SealedBy([CoreHeader(n, diffInTurn) EXCEPT !.body = body], InTurnOf(n))

SignInputs(n) ==
    {Proposal(n, "b1"), Proposal(n, "b2"),
     WithVector(Proposal(n, "b1"), VectorOf(Proposal(n, "b1"), {"C", "D"})),
     SealedBy([CoreHeader(n, diffInTurn) EXCEPT !.parentHash = "Q"], InTurnOf(n))}

SignResult(err, after, signed) == [err |-> err, after |-> after, signed |-> signed]

\* Signatures.GetSig over the cache entry of a hash.
GetSig(c, hash, a) ==
    IF CacheHas(c, hash, a)
    THEN (CHOOSE e \in c : e.hash = hash /\ e.addr = a).sig
    ELSE ZeroSig

\* allSigs of signHeader: Epoch slots, slot round holding the cached signature of
\* the committee member of that round.
allSigs(c, hash, committee) ==
    [i \in 1..EpochLength |->
        IF i <= Len(committee) THEN GetSig(c, hash, committee[i]) ELSE ZeroSig]

\* signHeader lines 343-345: a height recorded in signedBlocks under another hash
\* must not be signed.
signedCheck(blocks, number, hash) ==
    number \in DOMAIN blocks /\ blocks[number] # hash

signHeader(h, c, self, blocks) ==
    LET hash == HeaderHash(h)
        ps == parentSnapshot(h.number - 1, h.parentHash)
    IN  IF ps.err # "nil" THEN SignResult(ps.err, h, FALSE)
        ELSE IF ~CacheKnown(c, hash) /\ Len(signers(ps.snap)) > 0
        THEN SignResult("panic", h, FALSE)
        ELSE LET sigs == allSigs(c, hash, signers(ps.snap))
                 h1 == [h EXCEPT !.extra2 = Extra2(sigs, FALSE, TRUE)]
             IN  IF ~isSigner(ps.snap, self)
                 THEN SignResult("errSignerNotInCommittee", h1, FALSE)
                 ELSE IF signedCheck(blocks, h.number, hash)
                 THEN SignResult("errMultiBlocksInOneHeight", h1, FALSE)
                 ELSE LET round == signerRound(ps.snap, self).round
                          mine == SigBy(self, sigHash(h))
                      IN  SignResult("nil",
                                     [h EXCEPT !.extra2 =
                                         Extra2([sigs EXCEPT ![round + 1] = mine], FALSE, TRUE)],
                                     TRUE)

\* The validator recovers the signatures of a received header into the cache.
SignerEcrecover(h) ==
    /\ scount < MaxSignCalls
    /\ signatures' = ecrecover(h, signatures).cache
    /\ scount' = scount + 1
    /\ UNCHANGED <<vlast, vcount, vnumber, dporSigner, signedBlocks, produced, slast,
                   snapVars, fsmVars, laterVars>>

\* Dpor.SignHeader: the header is completed with the cached signatures and, when
\* the engine is a committee member, with its own.  Nothing records the height.
SignHeader(h) ==
    /\ scount < MaxSignCalls
    /\ \E r \in {signHeader(h, signatures, dporSigner, signedBlocks)} :
           /\ slast' = [h |-> h, after |-> r.after, err |-> r.err]
           /\ produced' = IF r.signed
                          THEN produced \cup {[number |-> h.number, hash |-> HeaderHash(h)]}
                          ELSE produced
    /\ scount' = scount + 1
    /\ UNCHANGED <<signatures, vlast, vcount, vnumber, dporSigner, signedBlocks,
                   snapVars, fsmVars, laterVars>>

NextSign ==
    \/ \E h \in SignInputs(vnumber) : SignerEcrecover(h)
    \/ \E h \in SignInputs(vnumber) : SignHeader(h)

SpecSign == InitSign /\ [][NextSign]_vars

\* C2: after any sequence of signHeader calls the local signer has not signed two
\* different header hashes at one block number, and a signHeader call for a height
\* already signed over another hash fails with errMultiBlocksInOneHeight.
C2_OneHashPerHeight ==
    /\ \A p, q \in produced : p.number = q.number => p.hash = q.hash
    /\ (\E p \in produced : p.number = slast.h.number /\ p.hash # HeaderHash(slast.h))
           => slast.err # "nil"

\* The bytes slot i of the signature vector of h holds; a vector shorter than i
\* slots holds none, which the code reads as zero bytes.
SlotBefore(h, i) ==
    IF i <= Len(h.extra2.slots) THEN h.extra2.slots[i] ELSE ZeroSig

\* The slot of the local signer: its index in the proposers of the parent snapshot.
OwnSlot == CHOOSE i \in 1..Len(Committee) : Committee[i] = dporSigner

\* C22: a successful signHeader writes the local signature into the slot
\* index_of(self, proposers) of the signature vector and leaves every other slot
\* with the bytes it held before the call.
C22_OtherSlotsKept ==
    (slast.err = "nil") =>
        /\ slast.after.extra2.slots[OwnSlot] = SigBy(dporSigner, sigHash(slast.h))
        /\ \A i \in 1..EpochLength :
               i # OwnSlot => slast.after.extra2.slots[i] = SlotBefore(slast.h, i)

\* C23: signHeader fails with errSignerNotInCommittee whenever the local identity
\* is no member of the committee of the header's number (the parent snapshot being
\* there), and then no signature is made with the local key.
C23_OutsiderNotInCommittee ==
    (/\ slast.err # "none"
     /\ dporSigner \notin Range(Committee)
     /\ parentSnapshot(slast.h.number - 1, slast.h.parentHash).err = "nil")
        => (slast.err = "errSignerNotInCommittee" /\ produced = {})

\* C39: a signHeader call for a header whose hash has no entry in the signature
\* cache ends with a result or an error, not with a crash, and signs the header
\* when the local signer is a member of the committee of its height.
C39_UncachedHashCompletes ==
    (slast.err # "none" /\ ~CacheKnown(signatures, HeaderHash(slast.h))) =>
        /\ slast.err # "panic"
        /\ (/\ dporSigner \in Range(Committee)
            /\ parentSnapshot(slast.h.number - 1, slast.h.parentHash).err = "nil")
               => (slast.err = "nil" /\ produced # {})

----------------------------------------------------------------------------
(* SpecSnap: the committee snapshot from genesis through apply              *)

\* Go's copy into a fresh slice of n zero addresses: min(n, len(src)) entries of
\* src, zero addresses after them.
copyInto(n, src) == [i \in 1..n |-> IF i <= Len(src) THEN src[i] ELSE ZeroAddress]

newSnapshot(number, hash, sgn) ==
    Snapshot(number, hash, copyInto(EpochLength, sgn), <<>>, <<>>)

copy(s) ==
    Snapshot(s.Number, s.Hash, copyInto(EpochLength, s.Signers),
             copyInto(Len(s.Candidates), s.Candidates), s.Recents)

\* The signer lists snapshot() reads at block zero: none in the fake modes, else
\* the addresses of the genesis extra (the developer genesis names one proposer,
\* the default genesis four; a genesis may name more than Epoch).
GenesisHash == "g"
GenesisSigners == {<<>>, <<"A">>, <<"A", "B", "C", "D">>, <<"A", "B", "C", "D", "E">>}

\* updateCandidates and updateRpts: the three fixed addresses and scores.
StubCandidates == <<"B", "A", "C">>
StubRpts == <<[Address |-> "B", Rpt |-> 50], [Address |-> "A", Rpt |-> 100],
              [Address |-> "C", Rpt |-> 20]>>

updateCandidates(s, header) == [s EXCEPT !.Candidates = StubCandidates]
updateRpts(s, header) == StubRpts

\* Hash().Big().Int64() of the two header hashes of the model.
SeedOf(hash) == IF hash = "h1" THEN 1 ELSE 2

Remove(seq, i) == [j \in 1..(Len(seq) - 1) |-> IF j < i THEN seq[j] ELSE seq[j + 1]]

\* Candidates by score, highest first, ties by address.
RECURSIVE SortRpts(_)
SortRpts(rpts) ==
    IF Len(rpts) = 0 THEN <<>>
    ELSE LET best == CHOOSE i \in 1..Len(rpts) :
                        \A j \in 1..Len(rpts) :
                            \/ rpts[i].Rpt > rpts[j].Rpt
                            \/ rpts[i].Rpt = rpts[j].Rpt /\ i <= j
         IN  <<rpts[best]>> \o SortRpts(Remove(rpts, best))

\* Draws without replacement, each draw fixed by the seed.
RECURSIVE Draw(_, _, _)
Draw(sorted, seed, k) ==
    IF k = 0 THEN <<>>
    ELSE LET i == (seed % Len(sorted)) + 1
         IN  <<sorted[i].Address>> \o Draw(Remove(sorted, i), seed + 1, k - 1)

\* election.Elect: viewLength distinct addresses, or InsufficientCandidates.
Elect(rpts, seed, viewLength) ==
    IF Len(rpts) < viewLength
    THEN [err |-> "InsufficientCandidates", signers |-> <<>>]
    ELSE [err |-> "nil", signers |-> Draw(SortRpts(rpts), seed, viewLength)]

\* What the single return value of Elect can hold when the election fails: nothing,
\* or the candidates there are; the call may also not return.
ElectFailures == {"nil", "short", "panic"}

\* updateView: the result of Elect becomes the committee, whatever it holds.
updateView(s, rpts, seed, viewLength, failure) ==
    LET e == Elect(rpts, seed, viewLength)
    IN  IF e.err = "nil" THEN [err |-> "nil", snap |-> [s EXCEPT !.Signers = e.signers]]
        ELSE IF failure = "panic" THEN [err |-> "panic", snap |-> s]
        ELSE IF failure = "short"
        THEN [err |-> "nil",
              snap |-> [s EXCEPT !.Signers = Draw(SortRpts(rpts), seed, Len(rpts))]]
        ELSE [err |-> "nil", snap |-> [s EXCEPT !.Signers = <<>>]]

applyHeader(s, header, failure) ==
    LET s1 == updateCandidates([s EXCEPT !.Number = header.number, !.Hash = header.hash],
                               header)
    IN  IF s1.Number % checkpointInterval = 0
        THEN updateView(s1, updateRpts(s1, header), SeedOf(header.hash), EpochLength, failure)
        ELSE [err |-> "nil", snap |-> s1]

RECURSIVE applyHeaders(_, _, _, _)
applyHeaders(s, headers, i, failure) ==
    IF i > Len(headers) THEN [err |-> "nil", snap |-> s]
    ELSE LET r == applyHeader(s, headers[i], failure)
         IN  IF r.err # "nil" THEN r ELSE applyHeaders(r.snap, headers, i + 1, failure)

\* apply, with what it does to the two objects involved: snap is the snapshot
\* returned, recv the receiver after the call, same says that the pointer returned
\* is the receiver itself (nil is returned with an error).
ApplyResult(err, s, recv, same) == [err |-> err, snap |-> s, recv |-> recv, same |-> same]

\* apply run on the receiver itself instead of a copy of it.
applyInPlace(s, headers, failure) ==
    IF Len(headers) = 0 THEN ApplyResult("nil", s, s, TRUE)
    ELSE IF \E i \in 1..(Len(headers) - 1) : headers[i + 1].number # headers[i].number + 1
    THEN ApplyResult("errInvalidVotingChain", s, s, FALSE)
    ELSE IF headers[1].number # s.Number + 1
    THEN ApplyResult("errInvalidVotingChain", s, s, FALSE)
    ELSE LET r == applyHeaders(s, headers, 1, failure)
         IN  IF r.err # "nil" THEN ApplyResult(r.err, s, r.snap, FALSE)
             ELSE ApplyResult("nil", r.snap, r.snap, TRUE)

apply(s, headers, failure) ==
    IF Len(headers) = 0 THEN ApplyResult("nil", s, s, TRUE)
    ELSE IF \E i \in 1..(Len(headers) - 1) : headers[i + 1].number # headers[i].number + 1
    THEN ApplyResult("errInvalidVotingChain", s, s, FALSE)
    ELSE IF headers[1].number # s.Number + 1
    THEN ApplyResult("errInvalidVotingChain", s, s, FALSE)
    ELSE LET r == applyHeaders(copy(s), headers, 1, failure)
         IN  IF r.err # "nil" THEN ApplyResult(r.err, s, s, FALSE)
             ELSE ApplyResult("nil",
                              [r.snap EXCEPT !.Number = headers[Len(headers)].number,
                                             !.Hash = headers[Len(headers)].hash],
                              s, FALSE)

SnapHeader(n, hash, parent) == [number |-> n, hash |-> hash, parentHash |-> parent]

HeaderHashes == {"h1", "h2"}

\* Header sequences offered to apply on snapshot s: one or two headers, following
\* s or not, contiguous or not, linked by parent hash or not.
ApplyInputs(s) ==
    LET first == {SnapHeader(n, x, y) : n \in {s.Number, s.Number + 1, s.Number + 2},
                                        x \in HeaderHashes, y \in {s.Hash, "h2"}}
    IN  {<<>>} \cup {<<h>> : h \in first}
          \cup UNION {{<<h, SnapHeader(n, x, h.hash)>> :
                          n \in {h.number + 1, h.number + 2}, x \in HeaderHashes} :
                              h \in first}

NoResult == [op |-> "none", signer |-> ZeroAddress, number |-> 0, ok |-> FALSE, err |-> "none"]

\* No apply call is being tracked / no derivation was made.
NotHeld == [called |-> FALSE, headers |-> <<>>, before |-> "none", recv |-> "none",
            same |-> FALSE, ok |-> FALSE]
NoDerive == [called |-> FALSE, headers |-> <<>>, k |-> 0, whole |-> "none", parts |-> "none"]

InitSnap ==
    /\ snap \in {newSnapshot(0, GenesisHash, sgn) : sgn \in GenesisSigners}
    /\ held = NotHeld
    /\ dlast = NoDerive
    /\ lres = NoResult
    /\ VerifyIdle /\ SignIdle /\ FsmIdle /\ LaterIdle

\* snap.apply(headers): the caller goes on with the snapshot returned, or with the
\* receiver when apply returned an error.
Apply(headers, failure) ==
    /\ \A i \in 1..Len(headers) : headers[i].number <= MaxNumber
    /\ \E r \in {apply(snap, headers, failure)} :
           /\ snap' = IF r.err = "nil" THEN r.snap ELSE r.recv
           /\ held' = [called |-> TRUE, headers |-> headers, before |-> snap,
                       recv |-> r.recv, same |-> r.same, ok |-> r.err = "nil"]
           /\ lres' = [op |-> "apply", signer |-> ZeroAddress,
                       number |-> Len(headers), ok |-> r.err = "nil", err |-> r.err]
    /\ dlast' = NoDerive
    /\ UNCHANGED <<verifyVars, signVars, fsmVars, laterVars>>

\* A later change to the snapshot apply returned: applyHeader called on it.  It
\* changes the receiver of that apply when both are one object.
ApplyHeader(header, failure) ==
    /\ held.called /\ held.ok
    /\ header.number <= MaxNumber
    /\ \E r \in {applyHeader(snap, header, failure)} :
           /\ r.err = "nil"
           /\ snap' = r.snap
           /\ held' = IF held.same THEN [held EXCEPT !.recv = r.snap] ELSE held
           /\ lres' = [op |-> "applyHeader", signer |-> ZeroAddress,
                       number |-> header.number, ok |-> TRUE, err |-> r.err]
    /\ dlast' = NoDerive
    /\ UNCHANGED <<verifyVars, signVars, fsmVars, laterVars>>

\* Headers that follow s in number, each naming its predecessor as parent.
RECURSIVE LinkedChains(_, _, _)
LinkedChains(n, parent, len) ==
    IF len = 0 THEN {<<>>}
    ELSE UNION {{<<SnapHeader(n, x, parent)>> \o rest : rest \in LinkedChains(n + 1, x, len - 1)} :
                    x \in HeaderHashes}

DeriveInputs(s) == LinkedChains(s.Number + 1, s.Hash, 2) \cup LinkedChains(s.Number + 1, s.Hash, 3)

\* apply of the first k headers and then apply of the rest on the result.
applyInParts(s, headers, k, failure) ==
    LET first == apply(s, SubSeq(headers, 1, k), failure)
    IN  IF first.err # "nil" THEN [err |-> first.err, snap |-> s]
        ELSE LET second == apply(first.snap, SubSeq(headers, k + 1, Len(headers)), failure)
             IN  IF second.err # "nil" THEN [err |-> second.err, snap |-> s]
                 ELSE [err |-> "nil", snap |-> second.snap]

\* The same headers derived in one apply call and in two; the caller goes on with
\* the result of the two calls.
Derive(headers, k, failure) ==
    /\ \A i \in 1..Len(headers) : headers[i].number <= MaxNumber
    /\ \E whole \in {apply(snap, headers, failure)},
          parts \in {applyInParts(snap, headers, k, failure)} :
           /\ snap' = parts.snap
           /\ dlast' = [called |-> TRUE, headers |-> headers, k |-> k,
                        whole |-> [err |-> whole.err,
                                   snap |-> IF whole.err = "nil" THEN whole.snap ELSE snap],
                        parts |-> parts]
           /\ lres' = [op |-> "derive", signer |-> ZeroAddress,
                       number |-> Len(headers), ok |-> parts.err = "nil", err |-> parts.err]
    /\ held' = NotHeld
    /\ UNCHANGED <<verifyVars, signVars, fsmVars, laterVars>>

IsLeader(a, number) ==
    /\ LET r == isLeader(snap, a, number)
       IN  lres' = [op |-> "isLeader", signer |-> a, number |-> number,
                    ok |-> r.ok, err |-> r.err]
    /\ held' = NotHeld
    /\ dlast' = NoDerive
    /\ UNCHANGED <<snap, verifyVars, signVars, fsmVars, laterVars>>

LeaderQueries == 0..(MaxNumber + EpochLength)

\* calcDifficulty(snap, signer): the difficulty of the block after the snapshot.
calcDifficulty(s, signer) ==
    IF isLeader(s, signer, s.Number + 1).ok THEN diffInTurn ELSE diffNoTurn

CalcDifficulty(signer) ==
    /\ LET r == isLeader(snap, signer, snap.Number + 1)
       IN  lres' = [op |-> "calcDifficulty", signer |-> signer, number |-> snap.Number + 1,
                    ok |-> r.ok, err |-> r.err,
                    difficulty |-> calcDifficulty(snap, signer)]
    /\ held' = NotHeld
    /\ dlast' = NoDerive
    /\ UNCHANGED <<snap, verifyVars, signVars, fsmVars, laterVars>>

NextSnap ==
    \/ \E headers \in ApplyInputs(snap), failure \in ElectFailures : Apply(headers, failure)
    \/ \E x \in HeaderHashes, failure \in ElectFailures :
           ApplyHeader(SnapHeader(snap.Number + 1, x, snap.Hash), failure)
    \/ \E headers \in DeriveInputs(snap), failure \in ElectFailures :
           \E k \in 1..(Len(headers) - 1) : Derive(headers, k, failure)
    \/ \E a \in Addresses \cup {"E"}, number \in LeaderQueries : IsLeader(a, number)
    \/ \E a \in Addresses \cup {"E"} : CalcDifficulty(a)

SpecSnap == InitSnap /\ [][NextSnap]_vars

proposers == signers(snap)

\* C8: for every snapshot, address a and number n >= 1, isLeader(a, n) is true iff
\* proposers[(n-1) mod Epoch] = a; for n = 0 it is the errGenesisBlockNumber error.
C8_IsLeaderIff ==
    lres.op = "isLeader" =>
        IF lres.number = 0
        THEN lres.err = "errGenesisBlockNumber" /\ ~lres.ok
        ELSE lres.ok <=>
                LET i == ((lres.number - 1) % EpochLength) + 1
                IN  i <= Len(proposers) /\ proposers[i] = lres.signer

\* C9: in every snapshot reached from genesis by apply calls, for each number
\* n >= 1 exactly one address of proposers satisfies isLeader(addr, n).
C9_ExactlyOneLeader ==
    \A n \in 1..(MaxNumber + EpochLength) :
        Cardinality({a \in Range(proposers) : isLeader(snap, a, n).ok}) = 1

\* C10: in every snapshot reached from genesis by apply calls, checkpoints
\* included, proposers has exactly Epoch entries and no address twice.
C10_ProposersDistinct ==
    /\ Len(proposers) = EpochLength
    /\ \A i, j \in 1..Len(proposers) : proposers[i] = proposers[j] => i = j

\* The headers of the last apply call are consecutive in number, the first follows
\* the receiver, and each names the hash of its predecessor as parent.
WellLinked(before, headers) ==
    /\ \A i \in 1..(Len(headers) - 1) :
           /\ headers[i + 1].number = headers[i].number + 1
           /\ headers[i + 1].parentHash = headers[i].hash
    /\ Len(headers) > 0 =>
           (headers[1].number = before.Number + 1 /\ headers[1].parentHash = before.Hash)

\* C14: apply succeeds only if the headers are consecutive in number, the first
\* follows the snapshot's number and every parent hash is the hash of the
\* predecessor (the snapshot's for the first header); otherwise it fails with
\* errInvalidVotingChain.
C14_ApplyOnlyLinked ==
    (lres.op = "apply" /\ held.called) =>
        IF WellLinked(held.before, held.headers)
        THEN TRUE
        ELSE ~lres.ok /\ lres.err = "errInvalidVotingChain"

C16_DeriveAssociative ==
    dlast.called => dlast.whole = dlast.parts

\* C17: when apply processes a header whose number is a checkpoint, the snapshot it
\* returns has the newly elected committee as proposers and holds the committee in
\* force before the checkpoint in its recent signers.
C17_CheckpointRecordsPrevious ==
    (/\ lres.op = "apply" /\ lres.ok /\ held.called
     /\ \E i \in 1..Len(held.headers) : held.headers[i].number % checkpointInterval = 0)
        => /\ \E i \in 1..Len(held.headers) :
                  /\ held.headers[i].number % checkpointInterval = 0
                  /\ LET e == Elect(StubRpts, SeedOf(held.headers[i].hash), EpochLength)
                     IN  e.err = "nil" /\ proposers = e.signers
           /\ \A a \in Range(signers(held.before)) :
                  \E n \in DOMAIN snap.Recents : snap.Recents[n] = a


\* C36: the difficulty calcDifficulty(snapshot, signer) returns is the one the turn
\* check of the verifier accepts in a header of height snapshot.number + 1 sealed
\* by that signer, and it is DIFF_IN_TURN iff the signer is the in-turn proposer
\* proposers[(number - 1) mod Epoch] of that height, DIFF_NO_TURN otherwise.
C36_DifficultyMatchesTurnCheck ==
    lres.op = "calcDifficulty" =>
        /\ \A d \in {diffInTurn, diffNoTurn} :
               (turnCheck(isLeader(snap, lres.signer, lres.number).ok, d) = "nil")
                   <=> (d = lres.difficulty)
        /\ (lres.difficulty = diffInTurn) <=>
               LET i == ((lres.number - 1) % EpochLength) + 1
               IN  i <= Len(proposers) /\ proposers[i] = lres.signer
        /\ lres.difficulty \in {diffInTurn, diffNoTurn}

----------------------------------------------------------------------------
(* SpecFSM: the LBFT2 handler of one validator and its per-height machine   *)

Self == "V1"
Peers == {"V2", "V3", "V4"}
Validators == {Self} \cup Peers
Senders == Peers
NoPeer == "nil"

MaxHeights == 1
StartHeight == EpochLength + 1
LastHeight == StartHeight + MaxHeights - 1

\* BlockOrHeader: a block or a header, with the signatures it carries and the
\* verdict the header verifier has for it.
Carrier(number, hash, isBlock, coinbase, txs, verdict, sigs) ==
    [number |-> number, hash |-> hash, isBlock |-> isBlock, coinbase |-> coinbase,
     txs |-> txs, verdict |-> verdict, sigs |-> sigs]

NoBlock == Carrier(0, <<>>, FALSE, ZeroAddress, <<>>, "none", {})
Block(n, name, verdict) == Carrier(n, <<name, n>>, TRUE, "V2", <<"tx">>, verdict, {})
CreateImpeachBlock(n) == Carrier(n, <<"impeach", n>>, TRUE, ZeroAddress, <<>>, "ok", {})
HeaderOf(b, sigs) == [b EXCEPT !.isBlock = FALSE, !.sigs = sigs]
WithSigs(b, sigs) == [b EXCEPT !.sigs = sigs]
BlockID(b) == [number |-> b.number, hash |-> b.hash, coinbase |-> b.coinbase, txs |-> b.txs]

quorum_reached(sigs) == percentagePBFT(Cardinality(sigs \cap Validators), EpochLength)

\* The machine of height n: the normal track and the impeach track.
NewFSM(n) ==
    [number |-> n,
     state |-> "NewRound", block |-> NoBlock, prepareSigs |-> {}, commitSigs |-> {},
     istate |-> "NewRound", iblock |-> NoBlock, iprepareSigs |-> {}, icommitSigs |-> {}]

\* FinalCommitted retires all state of the height.
Retired(f) ==
    [NewFSM(f.number) EXCEPT !.state = "FinalCommitted", !.istate = "FinalCommitted"]

FsmResult(f, output, action, msgCode, err) ==
    [fsm |-> f, output |-> output, action |-> action, msgCode |-> msgCode, err |-> err]

Nothing(f) == FsmResult(f, <<>>, "NoAction", "NoMsgCode", "nil")

normalTrack(f, input, msgCode) ==
    CASE msgCode = "PreprepareMsgCode" /\ f.state = "NewRound" ->
            IF input.verdict = "unknownAncestor"
            THEN FsmResult(f, <<>>, "NoAction", "NoMsgCode", "ErrUnknownAncestor")
            ELSE IF input.verdict # "ok"
            THEN FsmResult(f, <<>>, "NoAction", "NoMsgCode", "errInvalidBlock")
            ELSE FsmResult([f EXCEPT !.state = "Preprepared", !.block = input,
                                     !.prepareSigs = {Self}],
                           <<HeaderOf(input, {Self})>>, "BroadcastMsgAction",
                           "PrepareMsgCode", "nil")
      [] msgCode = "PrepareMsgCode" /\ f.state = "Preprepared"
            /\ input.hash = f.block.hash ->
            LET sigs == f.prepareSigs \cup (input.sigs \cap Validators)
            IN  IF quorum_reached(sigs)
                THEN FsmResult([f EXCEPT !.state = "Prepared", !.prepareSigs = sigs,
                                         !.commitSigs = {Self}],
                               <<HeaderOf(f.block, {Self})>>, "BroadcastMsgAction",
                               "CommitMsgCode", "nil")
                ELSE FsmResult([f EXCEPT !.prepareSigs = sigs], <<>>, "NoAction",
                               "NoMsgCode", "nil")
      [] msgCode = "CommitMsgCode" /\ f.state = "Prepared"
            /\ input.hash = f.block.hash ->
            LET sigs == f.commitSigs \cup (input.sigs \cap Validators)
            IN  IF quorum_reached(sigs)
                THEN FsmResult([f EXCEPT !.state = "Committed", !.commitSigs = sigs],
                               <<WithSigs(f.block, sigs)>>, "BroadcastMsgAction",
                               "ValidateMsgCode", "nil")
                ELSE FsmResult([f EXCEPT !.commitSigs = sigs], <<>>, "NoAction",
                               "NoMsgCode", "nil")
      [] msgCode = "ValidateMsgCode" /\ f.state = "Committed"
            /\ input.hash = f.block.hash /\ input.verdict = "ok" ->
            FsmResult(Retired(f), <<input>>, "BroadcastAndInsertBlockAction",
                      "ValidateMsgCode", "nil")
      [] OTHER -> Nothing(f)

IsImpeachBlock(b) == b.coinbase = ZeroAddress /\ b.txs = <<>>

impeachTrack(f, input, msgCode) ==
    CASE msgCode = "ImpeachPreprepareMsgCode" /\ f.istate = "NewRound"
            /\ IsImpeachBlock(input) ->
            FsmResult([f EXCEPT !.istate = "Preprepared", !.iblock = input,
                                !.iprepareSigs = {Self}],
                      <<HeaderOf(input, {Self})>>, "BroadcastMsgAction",
                      "ImpeachPrepareMsgCode", "nil")
      [] msgCode = "ImpeachPrepareMsgCode" /\ f.istate = "Preprepared"
            /\ input.hash = f.iblock.hash ->
            LET sigs == f.iprepareSigs \cup (input.sigs \cap Validators)
            IN  IF quorum_reached(sigs)
                THEN FsmResult([f EXCEPT !.istate = "Prepared", !.iprepareSigs = sigs,
                                         !.icommitSigs = {Self}],
                               <<HeaderOf(f.iblock, {Self})>>, "BroadcastMsgAction",
                               "ImpeachCommitMsgCode", "nil")
                ELSE FsmResult([f EXCEPT !.iprepareSigs = sigs], <<>>, "NoAction",
                               "NoMsgCode", "nil")
      [] msgCode = "ImpeachCommitMsgCode" /\ f.istate = "Prepared"
            /\ input.hash = f.iblock.hash ->
            LET sigs == f.icommitSigs \cup (input.sigs \cap Validators)
            IN  IF quorum_reached(sigs)
                THEN FsmResult([f EXCEPT !.istate = "Committed", !.icommitSigs = sigs],
                               <<WithSigs(f.iblock, sigs)>>, "BroadcastMsgAction",
                               "ImpeachValidateMsgCode", "nil")
                ELSE FsmResult([f EXCEPT !.icommitSigs = sigs], <<>>, "NoAction",
                               "NoMsgCode", "nil")
      [] msgCode = "ImpeachValidateMsgCode" /\ f.istate = "Committed"
            /\ input.hash = f.iblock.hash /\ input.verdict = "ok" ->
            FsmResult(Retired(f), <<input>>, "BroadcastAndInsertBlockAction",
                      "ImpeachValidateMsgCode", "nil")
      [] OTHER -> Nothing(f)

NormalCodes == {"PreprepareMsgCode", "PrepareMsgCode", "CommitMsgCode", "ValidateMsgCode"}
ImpeachCodes == {"ImpeachPreprepareMsgCode", "ImpeachPrepareMsgCode",
                 "ImpeachCommitMsgCode", "ImpeachValidateMsgCode"}

\* vh.fsm.FSM(input, msgCode): inputs of a retired height change nothing; a
\* Preprepare goes through the header verifier, which has no parent for a block
\* above the next height; other inputs of another height change nothing.
FSM(f, input, msgCode) ==
    IF f.state = "FinalCommitted" THEN Nothing(f)
    ELSE IF input.number # f.number
            /\ ~(msgCode = "PreprepareMsgCode" /\ input.verdict = "unknownAncestor")
    THEN Nothing(f)
    ELSE IF msgCode \in NormalCodes THEN normalTrack(f, input, msgCode)
    ELSE IF msgCode \in ImpeachCodes THEN impeachTrack(f, input, msgCode)
    ELSE Nothing(f)

\* The decoding switch of handleLBFT2Msg: wire code -> code for the machine.
MsgCodeOf ==
    [PreprepareBlockMsg |-> "PreprepareMsgCode", PrepareHeaderMsg |-> "PrepareMsgCode",
     CommitHeaderMsg |-> "CommitMsgCode", ValidateBlockMsg |-> "ValidateMsgCode",
     PreprepareImpeachBlockMsg |-> "ImpeachPreprepareMsgCode",
     PrepareImpeachHeaderMsg |-> "ImpeachPrepareMsgCode",
     CommitImpeachHeaderMsg |-> "ImpeachCommitMsgCode",
     ValidateImpeachBlockMsg |-> "ImpeachValidateMsgCode"]

Msg(code, carrier) == [code |-> code, carrier |-> carrier]

\* An unknown wire code leaves the empty input (number 0) and NoMsgCode.
decode(msg) ==
    IF msg.code \in DOMAIN MsgCodeOf
    THEN [input |-> msg.carrier, msgCode |-> MsgCodeOf[msg.code]]
    ELSE [input |-> NoBlock, msgCode |-> "NoMsgCode"]

Sent(code, c) == [code |-> code, number |-> c.number, hash |-> c.hash]
Dispatch(bc, ins) == [bcast |-> bc, insert |-> ins]

dispatchCommitOnPrepare(output, action, msgCode) ==
    IF Len(output) = 0 THEN Dispatch({}, {})
    ELSE IF action = "BroadcastMsgAction"
    THEN IF msgCode = "PrepareMsgCode"
         THEN Dispatch({Sent("PrepareHeaderMsg", output[1]),
                        Sent("CommitHeaderMsg", output[1])}, {})
         ELSE IF msgCode = "CommitMsgCode"
         THEN Dispatch({Sent("CommitHeaderMsg", output[1]),
                        Sent("ValidateBlockMsg", output[1])}, {})
         ELSE IF msgCode = "ValidateMsgCode"
         THEN Dispatch({Sent("ValidateBlockMsg", output[1])}, {})
         ELSE Dispatch({}, {})
    ELSE IF action = "BroadcastAndInsertBlockAction"
    THEN Dispatch({}, {BlockID(output[1])})
    ELSE Dispatch({}, {})

dispatchInsertOnBroadcast(output, action, msgCode) ==
    IF Len(output) = 0 THEN Dispatch({}, {})
    ELSE IF msgCode \in {"ValidateMsgCode", "ImpeachValidateMsgCode"}
    THEN Dispatch({}, {BlockID(output[1])})
    ELSE Dispatch({}, {})

\* The switch over the result of the machine: what is broadcast to the committee
\* and what is handed to InsertChain and BroadcastBlock.
dispatch(output, action, msgCode) ==
    IF Len(output) = 0 THEN Dispatch({}, {})
    ELSE IF action = "BroadcastMsgAction"
    THEN CASE msgCode = "PrepareMsgCode" ->
                Dispatch({Sent("PrepareHeaderMsg", output[1])}, {})
           [] msgCode = "CommitMsgCode" ->
                Dispatch({Sent("CommitHeaderMsg", output[1])}, {})
           [] msgCode = "PrepareAndCommitMsgCode" ->
                Dispatch({Sent("PrepareHeaderMsg", output[1]),
                          Sent("CommitHeaderMsg", output[2])}, {})
           [] msgCode = "ValidateMsgCode" ->
                Dispatch({Sent("ValidateBlockMsg", output[1])}, {})
           [] msgCode = "ImpeachPrepareMsgCode" ->
                Dispatch({Sent("PrepareImpeachHeaderMsg", output[1])}, {})
           [] msgCode = "ImpeachCommitMsgCode" ->
                Dispatch({Sent("CommitImpeachHeaderMsg", output[1])}, {})
           [] msgCode = "ImpeachPrepareAndCommitMsgCode" ->
                Dispatch({Sent("PrepareImpeachHeaderMsg", output[1]),
                          Sent("CommitImpeachHeaderMsg", output[2])}, {})
           [] msgCode = "ImpeachValidateMsgCode" ->
                Dispatch({Sent("ValidateImpeachBlockMsg", output[1])}, {})
           [] OTHER -> Dispatch({}, {})
    ELSE IF action = "BroadcastAndInsertBlockAction"
    THEN IF msgCode \in {"ValidateMsgCode", "ImpeachValidateMsgCode"}
         THEN Dispatch({}, {BlockID(output[1])})
         ELSE Dispatch({}, {})
    ELSE Dispatch({}, {})

senderCheckSelfRejected(msgCode, p) == ~(msgCode = "ImpeachPreprepareMsgCode" /\ p = NoPeer)

\* An impeach preprepare must come from the node itself (p == nil).
senderCheck(msgCode, p) == ~(msgCode = "ImpeachPreprepareMsgCode" /\ p # NoPeer)

outdatedNever(number, currentNumber) == FALSE

\* handleLBFT2Msg lines 311-315: a message below the current number is outdated.
outdated(number, currentNumber) == number < currentNumber

HandlerResult(f, d, sync, unknown, stage, err) ==
    [fsm |-> f, bcast |-> d.bcast, insert |-> d.insert, sync |-> sync,
     unknown |-> unknown, stage |-> stage, err |-> err]

handleLBFT2Msg(f, msg, p) ==
    LET d == decode(msg)
        input == d.input
        currentNumber == f.number - 1
        sync == input.number > currentNumber + 1 /\ p # NoPeer
    IN  IF outdated(input.number, currentNumber)
        THEN HandlerResult(f, Dispatch({}, {}), sync, {}, "outdated", "nil")
        ELSE IF ~senderCheck(d.msgCode, p)
        THEN HandlerResult(f, Dispatch({}, {}), sync, {}, "sender", "nil")
        ELSE LET r == FSM(f, input, d.msgCode)
             IN  IF r.err \notin {"nil", "ErrUnknownAncestor"}
                 THEN HandlerResult(r.fsm, Dispatch({}, {}), sync, {}, "fsm", r.err)
                 ELSE HandlerResult(r.fsm, dispatch(r.output, r.action, r.msgCode), sync,
                                    IF r.err = "ErrUnknownAncestor"
                                    THEN {BlockID(input)} ELSE {},
                                    "fsm", r.err)

\* One call of handleLBFT2Msg with what its goroutines hand over.
HandleMsg(msg, p) ==
    \E r \in {handleLBFT2Msg(fsm, msg, p)} :
        /\ fsm' = r.fsm
        /\ bcast' = bcast \cup r.bcast
        /\ inserted' = inserted \cup r.insert
        /\ blockBcast' = blockBcast \cup r.insert
        /\ synced' = IF r.sync THEN synced \cup {p} ELSE synced
        /\ unknownAncestorBlocks' = unknownAncestorBlocks \cup r.unknown

\* What the committee can send to the node while its machine is at height n.
HeaderMsgs(n, code, names) ==
    {<<Msg(code, HeaderOf(Block(n, name, "ok"), {p})), p>> : name \in names, p \in Senders}

\* The messages of the protocol run of height n: the proposals, the votes on the
\* first proposal and on the impeach block, and the validate messages.
ProtocolMsgs(n) ==
    {<<Msg("PreprepareBlockMsg", Block(n, name, "ok")), "V2">> : name \in {"B1", "B2"}}
      \cup HeaderMsgs(n, "PrepareHeaderMsg", {"B1"})
      \cup HeaderMsgs(n, "CommitHeaderMsg", {"B1"})
      \cup {<<Msg("ValidateBlockMsg", Block(n, "B1", "ok")), "V2">>,
            <<Msg("ValidateImpeachBlockMsg", CreateImpeachBlock(n)), "V2">>}
      \cup {<<Msg(code, HeaderOf(CreateImpeachBlock(n), {p})), p>> :
                code \in {"PrepareImpeachHeaderMsg", "CommitImpeachHeaderMsg"}, p \in Senders}

\* Everything else a peer can send: blocks the verifier refuses, other heights, an
\* unknown code, a vote signed by an outsider, an impeach preprepare.
OtherMsgs(n) ==
    {<<Msg("PreprepareBlockMsg", Block(n, "B3", "unknownAncestor")), "V2">>,
     <<Msg("PreprepareBlockMsg", Block(n, "B4", "invalid")), "V2">>,
     <<Msg("PreprepareBlockMsg", Block(n + 1, "B1", "ok")), "V2">>,
     <<Msg("PreprepareBlockMsg", Block(n - 1, "B1", "ok")), "V2">>,
     <<Msg("PreprepareBlockMsg", Block(n - 2, "B1", "ok")), "V2">>,
     <<Msg("UnknownMsg", NoBlock), "V2">>,
     <<Msg("PrepareHeaderMsg", HeaderOf(Block(n, "B1", "ok"), {Outsider})), "V2">>,
     <<Msg("PreprepareImpeachBlockMsg", CreateImpeachBlock(n)), "V2">>}

PeerMsgs(n) == ProtocolMsgs(n) \cup OtherMsgs(n)

InitFSM ==
    /\ fsm = NewFSM(StartHeight)
    /\ timer = "armed"
    /\ pendingImpeachBlockCh = NoBlock
    /\ bcast = {}
    /\ inserted = {}
    /\ blockBcast = {}
    /\ synced = {}
    /\ unknownAncestorBlocks = {}
    /\ knownBlocks = {}
    /\ VerifyIdle /\ SignIdle /\ SnapIdle /\ LaterIdle

otherVars == <<verifyVars, signVars, snapVars, laterVars>>

\* A message of a committee peer reaches the handler.
Receive(msg, p) ==
    /\ fsm.number <= LastHeight
    /\ HandleMsg(msg, p)
    /\ UNCHANGED <<timer, pendingImpeachBlockCh, knownBlocks, otherVars>>

\* ImpeachTimeout expires: while the normal track is below Prepared the empty
\* impeach block of the height goes through ReceiveImpeachPendingBlock.
TimerExpire ==
    /\ timer = "armed"
    /\ pendingImpeachBlockCh = NoBlock
    /\ timer' = "expired"
    /\ IF fsm.state \in {"NewRound", "Preprepared"}
       THEN /\ pendingImpeachBlockCh' = CreateImpeachBlock(fsm.number)
            /\ knownBlocks' = knownBlocks \cup {BlockID(CreateImpeachBlock(fsm.number))}
       ELSE UNCHANGED <<pendingImpeachBlockCh, knownBlocks>>
    /\ UNCHANGED <<fsm, bcast, inserted, blockBcast, synced, unknownAncestorBlocks,
                   otherVars>>

\* The handler takes the pending impeach block and handles it as its own
\* impeach preprepare (p == nil).
PendingImpeachLoop ==
    /\ pendingImpeachBlockCh # NoBlock
    /\ HandleMsg(Msg("PreprepareImpeachBlockMsg", pendingImpeachBlockCh), NoPeer)
    /\ pendingImpeachBlockCh' = NoBlock
    /\ UNCHANGED <<timer, knownBlocks, otherVars>>

\* InsertChain has made a block of the height the head of the chain: a fresh
\* machine for the next height, its timer armed.
ChainAdvance ==
    /\ fsm.number <= LastHeight
    /\ \E b \in inserted : b.number = fsm.number
    /\ fsm' = NewFSM(fsm.number + 1)
    /\ timer' = "armed"
    /\ UNCHANGED <<pendingImpeachBlockCh, bcast, inserted, blockBcast, synced,
                   unknownAncestorBlocks, knownBlocks, otherVars>>

NextFSM ==
    \/ \E m \in PeerMsgs(fsm.number) : Receive(m[1], m[2])
    \/ TimerExpire
    \/ PendingImpeachLoop
    \/ ChainAdvance

SpecFSM == InitFSM /\ [][NextFSM]_vars

\* The impeach messages of the height the node is waiting for, from a peer.
ImpeachPrepareFrom(p) ==
    /\ fsm.istate = "Preprepared" /\ p \notin fsm.iprepareSigs
    /\ Receive(Msg("PrepareImpeachHeaderMsg", HeaderOf(CreateImpeachBlock(fsm.number), {p})), p)
ImpeachCommitFrom(p) ==
    /\ fsm.istate = "Prepared" /\ p \notin fsm.icommitSigs
    /\ Receive(Msg("CommitImpeachHeaderMsg", HeaderOf(CreateImpeachBlock(fsm.number), {p})), p)
ImpeachValidateFrom(p) ==
    /\ fsm.istate = "Committed"
    /\ Receive(Msg("ValidateImpeachBlockMsg", CreateImpeachBlock(fsm.number)), p)

\* The protocol run of a height with a quorum of the committee exchanging impeach
\* messages: the handler loop runs, and the impeach prepare, commit and validate
\* messages of two peers keep arriving.
QuorumPeers == {"V2", "V3"}

ImpeachExchange ==
    \/ PendingImpeachLoop
    \/ \E p \in QuorumPeers : ImpeachPrepareFrom(p)
    \/ \E p \in QuorumPeers : ImpeachCommitFrom(p)
    \/ ImpeachValidateFrom("V2")

NextFSMFair ==
    \/ \E m \in ProtocolMsgs(fsm.number) : Receive(m[1], m[2])
    \/ TimerExpire
    \/ PendingImpeachLoop
    \/ ChainAdvance

SpecFSMFair == InitFSM /\ [][NextFSMFair]_vars /\ WF_vars(ImpeachExchange)

----------------------------------------------------------------------------
(* Properties of the handler and the machine                                *)

Heights == StartHeight..LastHeight

ImpeachPending(n) ==
    /\ fsm.number = n /\ fsm.state = "NewRound" /\ timer = "expired"
    /\ pendingImpeachBlockCh = CreateImpeachBlock(n)

ImpeachInserted(n) ==
    \E b \in inserted : b.number = n /\ b.coinbase = ZeroAddress /\ b.txs = <<>>

HandlerCalls(n) ==
    PeerMsgs(n) \cup {<<Msg("PreprepareImpeachBlockMsg", CreateImpeachBlock(n)), NoPeer>>}

\* The machine is called for (msg, p) and answers BroadcastAndInsertBlockAction
\* with code Validate or ImpeachValidate, with an output and no error but
\* ErrUnknownAncestor.
InsertAnswer(f, msg, p) ==
    LET d == decode(msg)
        r == FSM(f, d.input, d.msgCode)
    IN  /\ handleLBFT2Msg(f, msg, p).stage = "fsm"
        /\ r.err \in {"nil", "ErrUnknownAncestor"}
        /\ Len(r.output) > 0
        /\ r.action = "BroadcastAndInsertBlockAction"
        /\ r.msgCode \in {"ValidateMsgCode", "ImpeachValidateMsgCode"}

\* C34: in every state and for every message, the handler hands a block to
\* InsertChain only when the machine answered BroadcastAndInsertBlockAction with
\* code Validate or ImpeachValidate, the block is the first output of the machine,
\* and it is handed to BroadcastBlock as well; for every other answer, a nil output
\* or another error nothing is inserted.
C34_InsertOnlyOnValidate ==
    /\ blockBcast = inserted
    /\ \A m \in HandlerCalls(fsm.number) :
           handleLBFT2Msg(fsm, m[1], m[2]).insert =
               IF InsertAnswer(fsm, m[1], m[2])
               THEN {BlockID(FSM(fsm, decode(m[1]).input, decode(m[1]).msgCode).output[1])}
               ELSE {}

\* The normal block of the first height was inserted and broadcast with no
\* impeachment under way.
C34_Witness ==
    /\ inserted = {BlockID(Block(StartHeight, "B1", "ok"))}
    /\ blockBcast = inserted
    /\ fsm.number = StartHeight /\ fsm.state = "FinalCommitted"
    /\ timer = "armed"

----------------------------------------------------------------------------
(* SpecQuorum: the quorum predicate                                         *)

\* Signature counts and committee sizes offered to percentagePBFT: every count up
\* to one more than the largest committee, every committee size up to MaxEpoch.
\* Both are lengths of lists held in memory, far below the width of a Go uint, so
\* the products by pctB and pctA do not wrap.
MaxEpoch == 21
SigCounts == 0..(MaxEpoch + 1)
EpochSizes == 0..MaxEpoch

NoQuorumCall == [n |-> 0, N |-> 0, res |-> FALSE, called |-> FALSE]

InitQuorum ==
    /\ qlast = NoQuorumCall
    /\ VerifyIdle /\ SignIdle /\ SnapIdle /\ FsmIdle /\ StoreIdle /\ AfterStoreIdle

PercentagePBFT(n, N) ==
    /\ qlast' = [n |-> n, N |-> N, res |-> percentagePBFT(n, N), called |-> TRUE]
    /\ UNCHANGED <<verifyVars, signVars, snapVars, fsmVars, storeVars, afterStoreVars>>

NextQuorum == \E n \in SigCounts, N \in EpochSizes : PercentagePBFT(n, N)

SpecQuorum == InitQuorum /\ [][NextQuorum]_vars

\* C13: for every signature count n and committee size E, percentagePBFT(n, E) is
\* true exactly when 3n > 2E; for E = 21 it is false for n = 14 and true for n = 15.
C13_QuorumIff ==
    qlast.called =>
        /\ qlast.res <=> (3 * qlast.n > 2 * qlast.N)
        /\ (qlast.N = 21 /\ qlast.n = 14) => ~qlast.res
        /\ (qlast.N = 21 /\ qlast.n = 15) => qlast.res

C13_Witness == qlast.called /\ qlast.N = 21 /\ qlast.n = 15 /\ qlast.res

----------------------------------------------------------------------------
(* SpecStore: snapshot resolution over the cache, the store and the chain   *)

MapPut(f, k, v) == [x \in DOMAIN f \cup {k} |-> IF x = k THEN v ELSE f[x]]
MapDrop(f, k) == [x \in DOMAIN f \ {k} |-> f[x]]

\* encoding/json of the exported fields of a DporSnapshot: the number as a JSON
\* number, hash and addresses as hex text, the lists as arrays, Recents as an object
\* whose keys are the block numbers in decimal text.
Hex(a) == <<"0x", a>>
UnHex(t) == t[2]
Dec(n) == <<"dec", n>>
UnDec(t) == t[2]

Marshal(s) ==
    [number |-> s.Number,
     hash |-> Hex(s.Hash),
     signers |-> [i \in 1..Len(s.Signers) |-> Hex(s.Signers[i])],
     candidates |-> [i \in 1..Len(s.Candidates) |-> Hex(s.Candidates[i])],
     recents |-> {<<Dec(n), Hex(s.Recents[n])>> : n \in DOMAIN s.Recents}]

Unmarshal(blob) ==
    Snapshot(blob.number,
             UnHex(blob.hash),
             [i \in 1..Len(blob.signers) |-> UnHex(blob.signers[i])],
             [i \in 1..Len(blob.candidates) |-> UnHex(blob.candidates[i])],
             [n \in {UnDec(e[1]) : e \in blob.recents} |->
                 UnHex((CHOOSE e \in blob.recents : UnDec(e[1]) = n)[2])])

dbKey(hash) == <<"dpor-", hash>>

LoadResult(err, s) == [err |-> err, snap |-> s]
NoSnapshot == Snapshot(0, "", <<>>, <<>>, <<>>)

store(d, s) == MapPut(d, dbKey(s.Hash), Marshal(s))

loadSnapshotBareKey(d, hash) ==
    IF <<hash>> \in DOMAIN d
    THEN LoadResult("nil", Unmarshal(d[<<hash>>]))
    ELSE LoadResult("errNotFound", NoSnapshot)

loadSnapshot(d, hash) ==
    IF dbKey(hash) \in DOMAIN d
    THEN LoadResult("nil", Unmarshal(d[dbKey(hash)]))
    ELSE LoadResult("errNotFound", NoSnapshot)

IsCheckPointShifted(number) == number % checkpointInterval = 1

IsCheckPoint(number) == number % checkpointInterval = 0

\* The local chain: one header per height up to MaxNumber, each naming the hash of
\* the one below; the genesis extra names the committee.
ChainHashes == <<"c1", "c2", "c3", "c4", "c5", "c6", "c7", "c8">>
ChainHash(n) == IF n = 0 THEN GenesisHash ELSE ChainHashes[n]
ChainHeader(n) == SnapHeader(n, ChainHash(n), IF n = 0 THEN "" ELSE ChainHash(n - 1))

ChainGetHeader(hash, number) ==
    IF number \in 0..MaxNumber /\ hash = ChainHash(number)
    THEN [found |-> TRUE, header |-> ChainHeader(number)]
    ELSE [found |-> FALSE, header |-> ChainHeader(0)]

GenesisBlockHeader == [CoreHeader(0, 0) EXCEPT !.parentHash = "", !.time = 0]

\* The signers snapshot() cuts out of the genesis extra.
genesisSigners(genesis) ==
    [i \in 1..((genesis.extraLen - extraVanity - extraSeal) \div AddressLength) |->
        genesis.extraSigners[i]]

Gathered(err, base, d, headers, from) ==
    [err |-> err, base |-> base, db |-> d, headers |-> headers, from |-> from]

\* The genesis branch of snapshot(): the genesis header is verified (result v), the
\* snapshot is made of the signers in its extra and stored.
gatherGenesis(d, headers, v) ==
    IF v.err # "nil" THEN Gathered(v.err, NoSnapshot, d, headers, "genesis")
    ELSE LET s == newSnapshot(0, GenesisHash, genesisSigners(GenesisBlockHeader))
         IN  Gathered("nil", s, store(d, s), headers, "genesis")

\* The search loop of snapshot(): back from (number, hash) to a snapshot in the
\* cache, a checkpoint on disk or the genesis block, collecting the headers passed.
RECURSIVE gatherHeaders(_, _, _, _, _, _)
gatherHeaders(cache, d, number, hash, parents, headers) ==
    IF hash \in DOMAIN cache
    THEN Gathered("nil", cache[hash], d, headers, "cache")
    ELSE IF IsCheckPoint(number) /\ loadSnapshot(d, hash).err = "nil"
    THEN Gathered("nil", loadSnapshot(d, hash).snap, d, headers, "disk")
    ELSE IF number = 0
    THEN gatherGenesis(d, headers, verifyHeader(GenesisBlockHeader, {}, Now))
    ELSE IF Len(parents) > 0
    THEN LET header == parents[Len(parents)]
         IN  IF header.hash # hash \/ header.number # number
             THEN Gathered("ErrUnknownAncestor", NoSnapshot, d, headers, "none")
             ELSE gatherHeaders(cache, d, number - 1, header.parentHash,
                                SubSeq(parents, 1, Len(parents) - 1), <<header>> \o headers)
    ELSE LET g == ChainGetHeader(hash, number)
         IN  IF ~g.found
             THEN Gathered("ErrUnknownAncestor", NoSnapshot, d, headers, "none")
             ELSE gatherHeaders(cache, d, number - 1, g.header.parentHash, parents,
                                <<g.header>> \o headers)

SnapshotResult(err, s, cache, d, from, headers) ==
    [err |-> err, snap |-> s, cache |-> cache, db |-> d, from |-> from, headers |-> headers]

\* The end of snapshot(): the result a of apply is cached and, when it is a
\* checkpoint reached by at least one header, stored.
snapshotStore(cache, g, a) ==
    IF a.err # "nil"
    THEN SnapshotResult(a.err, NoSnapshot, cache, g.db, g.from, g.headers)
    ELSE SnapshotResult("nil", a.snap,
                        MapPut(cache, a.snap.Hash, a.snap),
                        IF IsCheckPoint(a.snap.Number) /\ Len(g.headers) > 0
                        THEN store(g.db, a.snap) ELSE g.db,
                        g.from, g.headers)

\* The headers gathered (g) are applied to the snapshot found.
snapshotApply(cache, d, g, mode) ==
    IF g.err # "nil" THEN SnapshotResult(g.err, NoSnapshot, cache, d, g.from, <<>>)
    ELSE snapshotStore(cache, g, apply(g.base, g.headers, mode))

snapshot(cache, d, number, hash, parents, mode) ==
    snapshotApply(cache, d, gatherHeaders(cache, d, number, hash, parents, <<>>), mode)

NoStoreCall == [op |-> "none", number |-> 0, hash |-> "", err |-> "none", from |-> "none",
                applied |-> 0, snap |-> NoSnapshot, after |-> NoSnapshot]

InitStore ==
    /\ dporRecents = <<>>
    /\ db = <<>>
    /\ electMode \in ElectFailures
    /\ resolved = {}
    /\ derived = {}
    /\ rlast = NoStoreCall
    /\ VerifyIdle /\ SignIdle /\ SnapIdle /\ FsmIdle /\ UtilIdle /\ AfterStoreIdle

otherThanStore == <<verifyVars, signVars, snapVars, fsmVars, utilVars, afterStoreVars>>

\* The checkpoints among the headers a call applied, the last header marked; the
\* genesis block when the call built its snapshot.
DerivedBy(r) ==
    {[number |-> r.headers[i].number, hash |-> r.headers[i].hash, last |-> i = Len(r.headers)] :
        i \in {j \in 1..Len(r.headers) : r.headers[j].number % checkpointInterval = 0}}
      \cup (IF r.from = "genesis"
            THEN {[number |-> 0, hash |-> GenesisHash, last |-> TRUE]} ELSE {})

\* dpor.dh.snapshot(dpor, chain, number, hash, parents)
SnapshotCall(number, hash, parents) ==
    /\ \E r \in {snapshot(dporRecents, db, number, hash, parents, electMode)} :
           /\ dporRecents' = r.cache
           /\ db' = r.db
           /\ resolved' = IF r.err = "nil" THEN resolved \cup {r.snap} ELSE resolved
           /\ derived' = IF r.err = "nil" THEN derived \cup DerivedBy(r) ELSE derived
           /\ rlast' = [op |-> "snapshot", number |-> number, hash |-> hash, err |-> r.err,
                        from |-> r.from, applied |-> Len(r.headers), snap |-> r.snap,
                        after |-> NoSnapshot]
    /\ UNCHANGED <<electMode, otherThanStore>>

\* The ARC cache drops an entry.
Evict(hash) ==
    /\ hash \in DOMAIN dporRecents
    /\ dporRecents' = MapDrop(dporRecents, hash)
    /\ rlast' = [NoStoreCall EXCEPT !.op = "evict", !.hash = hash]
    /\ UNCHANGED <<db, electMode, resolved, derived, otherThanStore>>

\* A snapshot as the tests of the package build it, with recent signers.
FixtureSnapshot ==
    Snapshot(1, "t1", <<"C", "A", "B">>, <<"C", "A", "B">>,
             [n \in {0, 1} |-> IF n = 0 THEN "C" ELSE "A"])

\* What store is called on: the fixture, and cached snapshots of checkpoints.
StoreInputs ==
    {dporRecents[h] : h \in {x \in DOMAIN dporRecents : IsCheckPoint(dporRecents[x].Number)}}
        \cup {FixtureSnapshot}

\* s.store(db)
Store(s) ==
    /\ db' = store(db, s)
    /\ rlast' = [NoStoreCall EXCEPT !.op = "store", !.hash = s.Hash, !.err = "nil",
                                    !.snap = s]
    /\ UNCHANGED <<dporRecents, electMode, resolved, derived, otherThanStore>>

\* loadSnapshot(config, sigcache, db, hash)
LoadSnapshot(hash) ==
    /\ \E r \in {loadSnapshot(db, hash)} :
           rlast' = [NoStoreCall EXCEPT !.op = "load", !.hash = hash, !.err = r.err,
                                       !.snap = r.snap,
                                       !.after = IF rlast.op = "store" THEN rlast.snap
                                                 ELSE NoSnapshot]
    /\ rlast.op = "store"
    /\ UNCHANGED <<dporRecents, db, electMode, resolved, derived, otherThanStore>>

\* The heights snapshots are asked for: genesis, the block below the checkpoint,
\* the checkpoint and the head; with the right hash and no parents, with an unknown
\* hash, and for the head with its header or a wrong one as explicit parent.
QueryNumbers == {0, checkpointInterval - 1, checkpointInterval, MaxNumber}

SnapshotQueries ==
    {<<n, ChainHash(n), <<>>>> : n \in QueryNumbers}
      \cup {<<n, "unknown", <<>>>> : n \in {0, MaxNumber}}
      \cup {<<MaxNumber, ChainHash(MaxNumber), <<ChainHeader(n)>>>> :
                n \in {MaxNumber, MaxNumber - 1}}

NextStore ==
    \/ \E q \in SnapshotQueries : SnapshotCall(q[1], q[2], q[3])
    \/ \E h \in DOMAIN dporRecents : Evict(h)
    \/ \E s \in StoreInputs : Store(s)
    \/ \E h \in {ChainHash(n) : n \in QueryNumbers} \cup {"t1"} : LoadSnapshot(h)

SpecStore == InitStore /\ [][NextStore]_vars

\* C18: two snapshots resolved for the same (number, hash) are identical, whether
\* snapshot() took them from the cache, from a checkpoint on disk, or replayed
\* headers from an earlier snapshot or from genesis.
C18_SameKeySameSnapshot ==
    \A s1, s2 \in resolved :
        (s1.Number = s2.Number /\ s1.Hash = s2.Hash) => s1 = s2

\* The snapshot of (c.number, c.hash) is in the store under "dpor-" || hash.
Persisted(c) ==
    /\ dbKey(c.hash) \in DOMAIN db
    /\ Unmarshal(db[dbKey(c.hash)]).Number = c.number
    /\ Unmarshal(db[dbKey(c.hash)]).Hash = c.hash

----------------------------------------------------------------------------
(* SpecHandler: the protocol goroutines of the peers.  Each connection has  *)
(* its own goroutine, which reads a message and calls HandleMsg and so       *)
(* handleLBFT2Msg with it; the handler takes no lock and keeps no queue     *)
(* between the read and the call of the machine.  The call of the machine   *)
(* itself is taken as one step.                                              *)

MaxMsgs == 3

NoMsg == Msg("none", NoBlock)
NoHandle ==
    [called |-> FALSE, msg |-> NoMsg, p |-> NoPeer, current |-> 0, stage |-> "none",
     err |-> "none", sync |-> FALSE, fsmKept |-> TRUE, bcastNew |-> {},
     insertNew |-> {}, unknownNew |-> {}]

\* The heights the machine is at when the peers connect: the first block after
\* genesis (current number 0) and the first block of the second epoch.
HandlerHeights == {1, StartHeight}

\* Messages of the peers while the machine is at height n (current number n - 1):
\* the proposal of the height and votes on it, a block and a vote above the next
\* height, a block and a vote below the current number, a block of the current
\* number, an impeach block made by a peer, a message of no code of the protocol.
AllHandlerMsgs(n) ==
    {<<Msg("PreprepareBlockMsg", Block(n, "B1", "ok")), "V2">>,
     <<Msg("PrepareHeaderMsg", HeaderOf(Block(n, "B1", "ok"), {"V2"})), "V2">>,
     <<Msg("PrepareHeaderMsg", HeaderOf(Block(n, "B1", "ok"), {"V3"})), "V3">>,
     <<Msg("PreprepareBlockMsg", Block(n + 1, "B1", "unknownAncestor")), "V3">>,
     <<Msg("PrepareHeaderMsg", HeaderOf(Block(n + 1, "B1", "unknownAncestor"), {"V4"})), "V4">>,
     <<Msg("PreprepareBlockMsg", Block(n - 2, "B1", "ok")), "V3">>,
     <<Msg("CommitHeaderMsg", HeaderOf(Block(n - 2, "B1", "ok"), {"V4"})), "V4">>,
     <<Msg("PreprepareBlockMsg", Block(n - 1, "B1", "ok")), "V4">>,
     <<Msg("PreprepareImpeachBlockMsg", CreateImpeachBlock(n)), "V2">>,
     <<Msg("UnknownMsg", NoBlock), "V3">>}

\* Block numbers are unsigned.
HandlerMsgs(n) == {m \in AllHandlerMsgs(n) : m[1].carrier.number >= 0}

InitHandler ==
    /\ fsm \in {NewFSM(n) : n \in HandlerHeights}
    /\ timer = "armed"
    /\ pendingImpeachBlockCh = NoBlock
    /\ bcast = {}
    /\ inserted = {}
    /\ blockBcast = {}
    /\ synced = {}
    /\ unknownAncestorBlocks = {}
    /\ knownBlocks = {}
    /\ inflight = [p \in Peers |-> NoMsg]
    /\ arrivals = <<>>
    /\ applied = <<>>
    /\ hlast = NoHandle
    /\ VerifyIdle /\ SignIdle /\ SnapIdle /\ UtilIdle /\ StoreIdle /\ ShakeIdle /\ TimeIdle
    /\ TailIdle

otherThanHandler ==
    <<verifyVars, signVars, snapVars, utilVars, storeVars, shakeVars, timeVars, tailVars>>

\* The goroutine of peer p reads a message off its connection: the handler has
\* received it.
ReadMsg(msg, p) ==
    /\ Len(arrivals) < MaxMsgs
    /\ inflight[p] = NoMsg
    /\ inflight' = [inflight EXCEPT ![p] = msg]
    /\ arrivals' = Append(arrivals, <<p, msg>>)
    /\ UNCHANGED <<fsmVars, applied, hlast, otherThanHandler>>

\* The goroutine of peer p runs handleLBFT2Msg on the message it read.
Handle(p) ==
    /\ inflight[p] # NoMsg
    /\ HandleMsg(inflight[p], p)
    /\ \E r \in {handleLBFT2Msg(fsm, inflight[p], p)} :
           hlast' = [called |-> TRUE, msg |-> inflight[p], p |-> p,
                     current |-> fsm.number - 1, stage |-> r.stage, err |-> r.err,
                     sync |-> r.sync, fsmKept |-> (r.fsm = fsm), bcastNew |-> r.bcast,
                     insertNew |-> r.insert, unknownNew |-> r.unknown]
    /\ applied' = Append(applied, <<p, inflight[p]>>)
    /\ inflight' = [inflight EXCEPT ![p] = NoMsg]
    /\ UNCHANGED <<timer, pendingImpeachBlockCh, knownBlocks, arrivals, otherThanHandler>>

NextHandler ==
    \/ \E m \in HandlerMsgs(fsm.number) : ReadMsg(m[1], m[2])
    \/ \E p \in Peers : Handle(p)

SpecHandler == InitHandler /\ [][NextHandler]_vars

\* The number of the block or header the last message handled carries.
HandledNumber == decode(hlast.msg).input.number

\* C24: a message whose block number is lower than the current block number is
\* dropped: it is not put to the machine, nothing is broadcast or inserted for
\* it, and the handler returns no error.
C24_OutdatedDropped ==
    (hlast.called /\ HandledNumber < hlast.current) =>
        /\ hlast.stage = "outdated"
        /\ hlast.err = "nil"
        /\ hlast.fsmKept
        /\ hlast.bcastNew = {} /\ hlast.insertNew = {} /\ hlast.unknownNew = {}

\* An outdated block was dropped while the machine was past its first round.
C24_Witness ==
    /\ hlast.called
    /\ HandledNumber < hlast.current
    /\ hlast.msg.code = "PreprepareBlockMsg"
    /\ hlast.stage = "outdated"
    /\ fsm.state = "Preprepared"

\* C25: a message whose block number is greater than current + 1 makes the
\* handler ask the sending peer for a sync, and its block or header is kept in no
\* cache of the handler.
C25_FutureNotBuffered ==
    (hlast.called /\ HandledNumber > hlast.current + 1) =>
        /\ hlast.sync /\ hlast.p \in synced
        /\ hlast.unknownNew = {}
        /\ BlockID(hlast.msg.carrier) \notin unknownAncestorBlocks \cup knownBlocks

\* The messages of the height of the machine within a sequence of messages.
OfHeight(e) == e[2].carrier.number = fsm.number

IsPrefix(a, b) == Len(a) <= Len(b) /\ SubSeq(b, 1, Len(a)) = a

\* C26: the inputs of one height are put to the machine in the order in which
\* the handler received them, whatever connections they came on.
C26_ArrivalOrder ==
    IsPrefix(SelectSeq(applied, OfHeight), SelectSeq(arrivals, OfHeight))

\* C35: an ImpeachPreprepare message that came from a peer is not put to the
\* machine and nothing is broadcast or inserted for it; whatever the peers send,
\* the impeach track of the machine is not started by them.
C35_RemoteImpeachPreprepareDropped ==
    /\ (hlast.called /\ hlast.msg.code = "PreprepareImpeachBlockMsg" /\ hlast.p # NoPeer)
            => /\ hlast.stage # "fsm"
               /\ hlast.fsmKept
               /\ hlast.bcastNew = {} /\ hlast.insertNew = {} /\ hlast.unknownNew = {}
    /\ fsm.istate = "NewRound"

\* The impeach block of the height of the machine, sent by the peer V2, was
\* refused for its sender.
C35_Witness ==
    /\ hlast.called
    /\ hlast.msg = Msg("PreprepareImpeachBlockMsg", CreateImpeachBlock(fsm.number))
    /\ hlast.p = "V2"
    /\ hlast.stage = "sender"

\* C38: a message of a peer whose code is none of the eight codes of the protocol
\* is dropped: it is not put to the machine, and no sync, broadcast or insertion
\* is made for it.
C38_UnknownCodeDropped ==
    (hlast.called /\ hlast.msg.code \notin DOMAIN MsgCodeOf) =>
        /\ hlast.stage # "fsm"
        /\ ~hlast.sync
        /\ hlast.bcastNew = {} /\ hlast.insertNew = {}

----------------------------------------------------------------------------
(* SpecShake: PvHandshake.  The caller starts one goroutine that sends the  *)
(* own status and one that reads and checks the status of the peer, then    *)
(* waits for two values on errs or for the timer.  The reading goroutine    *)
(* assigns the named results of PvHandshake; the caller's return statements *)
(* assign them too, and the caller hands back what they hold once its       *)
(* deferred timeout.Stop() has run.                                         *)

ProtocolVersion == 1
ProtocolMaxMsgSize == 10 * 1024 * 1024

Status(isValidator, address, err) ==
    [isValidator |-> isValidator, address |-> address, err |-> err]

\* What the connection yields to ReadMsg and what the verifier makes of addresses.
PeerInput(read, code, size, decodable, version, address, verifier, send) ==
    [read |-> read, code |-> code, size |-> size, decodable |-> decodable,
     version |-> version, address |-> address, verifier |-> verifier, send |-> send]

\* VerifyValidatorFn: membership of the address in the committee of the term, or
\* the error of the lookup.
validatorVerifier(address, verifier) ==
    IF verifier = "nil" THEN [ok |-> address \in Validators, err |-> "nil"]
    ELSE [ok |-> FALSE, err |-> verifier]

ReadValidatorStatus(in) ==
    IF in.read # "nil" THEN Status(FALSE, ZeroAddress, in.read)
    ELSE IF in.code # "NewValidatorMsg" THEN Status(FALSE, ZeroAddress, "ErrNoStatusMsg")
    ELSE IF in.size > ProtocolMaxMsgSize THEN Status(FALSE, ZeroAddress, "ErrMsgTooLarge")
    ELSE IF ~in.decodable THEN Status(FALSE, ZeroAddress, "ErrDecode")
    ELSE IF in.version # ProtocolVersion
    THEN Status(FALSE, ZeroAddress, "ErrProtocolVersionMismatch")
    ELSE LET v == validatorVerifier(in.address, in.verifier)
         IN  Status(v.ok, in.address, v.err)

GoodStatus(address) ==
    PeerInput("nil", "NewValidatorMsg", 100, TRUE, ProtocolVersion, address, "nil", "nil")

\* The peers of a handshake: a validator of the term, an address outside the
\* committee, another protocol version, a first message that is no status, one too
\* large, one that does not decode, a broken connection, a verifier lookup that
\* fails; each with the own send going through or failing.
PeerInputs ==
    LET base == {GoodStatus("V2"), GoodStatus(Outsider),
                 [GoodStatus("V2") EXCEPT !.version = ProtocolVersion + 1],
                 [GoodStatus(Outsider) EXCEPT !.version = ProtocolVersion + 1],
                 [GoodStatus("V2") EXCEPT !.code = "PreprepareBlockMsg"],
                 [GoodStatus("V2") EXCEPT !.size = ProtocolMaxMsgSize + 1],
                 [GoodStatus("V2") EXCEPT !.decodable = FALSE],
                 [GoodStatus("V2") EXCEPT !.read = "EOF"],
                 [GoodStatus("V2") EXCEPT !.verifier = "errVerifier"]}
    IN  base \cup {[in EXCEPT !.send = "errSend"] : in \in base}

NoReturn == [returned |-> FALSE, isValidator |-> FALSE, address |-> ZeroAddress,
             err |-> "none", cause |-> "none"]

InitShake ==
    /\ hsIn \in PeerInputs
    /\ hsPc = [main |-> "select", got |-> 0, send |-> "start", read |-> "start",
               cause |-> "none"]
    /\ errs = <<>>
    /\ hsRes = Status(FALSE, ZeroAddress, "nil")
    /\ hsRet = NoReturn
    /\ VerifyIdle /\ SignIdle /\ SnapIdle /\ FsmIdle /\ UtilIdle /\ StoreIdle
    /\ HandlerIdle /\ TimeIdle /\ TailIdle

otherThanShake ==
    <<verifyVars, signVars, snapVars, fsmVars, utilVars, storeVars, handlerVars, timeVars,
      tailVars>>

\* The sending goroutine: p2p.Send, its error to errs.
SendStatus ==
    /\ hsPc.send = "start"
    /\ errs' = Append(errs, hsIn.send)
    /\ hsPc' = [hsPc EXCEPT !.send = "done"]
    /\ UNCHANGED <<hsIn, hsRes, hsRet, otherThanShake>>

\* The reading goroutine: ReadValidatorStatus returns and its three values are
\* assigned to isValidator, address and err, one after the other.
AssignIsValidator ==
    /\ hsPc.read = "start"
    /\ hsRes' = [hsRes EXCEPT !.isValidator = ReadValidatorStatus(hsIn).isValidator]
    /\ hsPc' = [hsPc EXCEPT !.read = "address"]
    /\ UNCHANGED <<hsIn, errs, hsRet, otherThanShake>>

AssignAddress ==
    /\ hsPc.read = "address"
    /\ hsRes' = [hsRes EXCEPT !.address = ReadValidatorStatus(hsIn).address]
    /\ hsPc' = [hsPc EXCEPT !.read = "err"]
    /\ UNCHANGED <<hsIn, errs, hsRet, otherThanShake>>

AssignErr ==
    /\ hsPc.read = "err"
    /\ hsRes' = [hsRes EXCEPT !.err = ReadValidatorStatus(hsIn).err]
    /\ hsPc' = [hsPc EXCEPT !.read = "report"]
    /\ UNCHANGED <<hsIn, errs, hsRet, otherThanShake>>

\* errs <- err in the reading goroutine.
ReportStatus ==
    /\ hsPc.read = "report"
    /\ errs' = Append(errs, hsRes.err)
    /\ hsPc' = [hsPc EXCEPT !.read = "done"]
    /\ UNCHANGED <<hsIn, hsRes, hsRet, otherThanShake>>

\* case err := <-errs: an error makes the caller return it with role false and
\* the zero address; the second nil makes it return the named results.
ReceiveErr ==
    /\ hsPc.main = "select"
    /\ Len(errs) > 0
    /\ errs' = Tail(errs)
    /\ IF Head(errs) # "nil"
       THEN /\ hsRes' = Status(FALSE, ZeroAddress, Head(errs))
            /\ hsPc' = [hsPc EXCEPT !.main = "deferred", !.cause = "suberr"]
       ELSE IF hsPc.got = 1
       THEN /\ hsRes' = [hsRes EXCEPT !.err = "nil"]
            /\ hsPc' = [hsPc EXCEPT !.main = "deferred", !.got = 2, !.cause = "both"]
       ELSE /\ hsPc' = [hsPc EXCEPT !.got = 1]
            /\ UNCHANGED hsRes
    /\ UNCHANGED <<hsIn, hsRet, otherThanShake>>

\* case <-timeout.C: handshakeTimeout has passed.
Timeout ==
    /\ hsPc.main = "select"
    /\ hsRes' = Status(FALSE, ZeroAddress, "DiscReadTimeout")
    /\ hsPc' = [hsPc EXCEPT !.main = "deferred", !.cause = "timeout"]
    /\ UNCHANGED <<hsIn, errs, hsRet, otherThanShake>>

\* The deferred timeout.Stop() has run; the caller gets what the named results hold.
Return ==
    /\ hsPc.main = "deferred"
    /\ hsRet' = [returned |-> TRUE, isValidator |-> hsRes.isValidator,
                 address |-> hsRes.address, err |-> hsRes.err, cause |-> hsPc.cause]
    /\ hsPc' = [hsPc EXCEPT !.main = "returned"]
    /\ UNCHANGED <<hsIn, errs, hsRes, otherThanShake>>

NextShake ==
    \/ SendStatus
    \/ AssignIsValidator
    \/ AssignAddress
    \/ AssignErr
    \/ ReportStatus
    \/ ReceiveErr
    \/ Timeout
    \/ Return

SpecShake == InitShake /\ [][NextShake]_vars

\* The peer sent a status message that was read and decoded.
StatusRead ==
    /\ hsIn.read = "nil" /\ hsIn.code = "NewValidatorMsg"
    /\ hsIn.size <= ProtocolMaxMsgSize /\ hsIn.decodable

\* C27: the handshake succeeds only if the status of the peer announces the local
\* protocol version and the announced address is verified as a member of the
\* committee; a status of another version fails with ErrProtocolVersionMismatch.
C27_HandshakeOnlyForMembers ==
    /\ (hsRet.returned /\ hsRet.err = "nil") =>
            /\ StatusRead
            /\ hsIn.version = ProtocolVersion
            /\ validatorVerifier(hsIn.address, hsIn.verifier).ok
    /\ (StatusRead /\ hsIn.version # ProtocolVersion) =>
            /\ ReadValidatorStatus(hsIn).err = "ErrProtocolVersionMismatch"
            /\ hsRet.returned => hsRet.err # "nil"

\* C28: PvHandshake returns success only when both goroutines have reported no
\* error before the timer; when one reports an error or the timer fires first it
\* returns an error with role false and the zero address.
C28_FailureIsClean ==
    hsRet.returned =>
        /\ hsRet.err = "nil" =>
                /\ hsRet.cause = "both"
                /\ hsIn.send = "nil" /\ ReadValidatorStatus(hsIn).err = "nil"
        /\ hsRet.cause # "both" =>
                /\ hsRet.err # "nil"
                /\ hsRet.isValidator = FALSE
                /\ hsRet.address = ZeroAddress

----------------------------------------------------------------------------
(* SpecTime: verifyHeader calls of one engine while the wall clock advances *)

MaxTicks == 3
MaxTimedVerifies == 3

\* The head of the chain was accepted, so the clock is not before its time.
ClockStart == ParentTime

\* Headers of height n on the head, sealed in turn, with every timestamp from
\* below that of the parent to beyond the last tick, signed by B, C and D or by B only.
HeaderTimes == (ParentTime - 1)..(ParentTime + Period + MaxTicks)

QuorumTimed(n, t) == Signed([CoreHeader(n, diffInTurn) EXCEPT !.time = t], n)

TimedHeaders(n) ==
    {QuorumTimed(n, t) : t \in HeaderTimes}
      \cup {WithVector(QuorumTimed(n, t), VectorOf(QuorumTimed(n, t), {"B"})) :
                t \in {ParentTime + Period, ParentTime + Period + 1}}

NoTimedCall ==
    [called |-> FALSE, h |-> NoHeader, now |-> 0, err |-> "none", cacheKept |-> TRUE,
     count |-> 0]

InitTime ==
    /\ signatures = {}
    /\ vlast = "none"
    /\ vcount = 0
    /\ vnumber \in VerifyNumbers
    /\ clock = ClockStart
    /\ tlast = NoTimedCall
    /\ rejected = {}
    /\ SignIdle /\ SnapIdle /\ FsmIdle /\ UtilIdle /\ StoreIdle /\ HandlerIdle /\ ShakeIdle
    /\ TailIdle

otherThanTime ==
    <<vlast, vcount, signVars, snapVars, fsmVars, utilVars, storeVars, handlerVars, shakeVars,
      tailVars>>

\* A second of wall-clock time passes.
Tick ==
    /\ clock < ClockStart + MaxTicks
    /\ clock' = clock + 1
    /\ UNCHANGED <<signatures, vnumber, tlast, rejected, otherThanTime>>

\* Dpor.VerifyHeader at the present time.
VerifyAt(h) ==
    /\ tlast.count < MaxTimedVerifies
    /\ \E r \in {verifyHeader(h, signatures, clock)} :
           /\ signatures' = r.cache
           /\ tlast' = [called |-> TRUE, h |-> h, now |-> clock, err |-> r.err,
                        cacheKept |-> (r.cache = signatures), count |-> tlast.count + 1]
           /\ rejected' = IF r.err = "ErrFutureBlock" THEN rejected \cup {h} ELSE rejected
    /\ UNCHANGED <<vnumber, clock, otherThanTime>>

NextTime ==
    \/ Tick
    \/ \E h \in TimedHeaders(vnumber) : VerifyAt(h)

SpecTime == InitTime /\ [][NextTime]_vars

\* C29: a header with time > now is refused with ErrFutureBlock and the refusal
\* leaves nothing behind: the signature cache is as before, and once the clock has
\* reached its time the same header, valid in everything else, verifies.
C29_FutureBlockThenOk ==
    /\ (tlast.called /\ tlast.h.time > tlast.now) =>
            (tlast.err = "ErrFutureBlock" /\ tlast.cacheKept)
    /\ (/\ tlast.called
        /\ tlast.h \in rejected
        /\ tlast.h.time <= tlast.now
        /\ tlast.h.time >= ParentTime + Period
        /\ tlast.h = QuorumTimed(vnumber, tlast.h.time))
            => tlast.err = "nil"

\* A header refused as a future block verifies after the clock has advanced.
C29_Witness ==
    /\ tlast.called
    /\ tlast.h \in rejected
    /\ tlast.now > ClockStart
    /\ tlast.h.time = tlast.now
    /\ tlast.err = "nil"

\* C30: for a header above genesis on a known parent, not of the future, a time
\* equal to parent.time + Period passes the timestamp check, and every time below
\* parent.time + Period fails with ErrInvalidTimestamp.
C30_TimestampBoundary ==
    (/\ tlast.called
     /\ tlast.h.number > 0
     /\ GetHeader(tlast.h.parentHash, tlast.h.number - 1).found
     /\ tlast.h.time <= tlast.now)
        => /\ tlast.h.time = ParentTime + Period =>
                  /\ tlast.err # "ErrInvalidTimestamp"
                  /\ tlast.h = QuorumTimed(vnumber, tlast.h.time) => tlast.err = "nil"
           /\ tlast.h.time < ParentTime + Period => tlast.err = "ErrInvalidTimestamp"

\* A header of time parent.time + Period has been accepted on a later call of
\* the run.
C30_Witness ==
    /\ tlast.called
    /\ tlast.h.time = ParentTime + Period
    /\ tlast.err = "nil"
    /\ tlast.count > 1

----------------------------------------------------------------------------
(* SpecCache: verifyHeader calls over the signature cache Dpor.signatures,   *)
(* an lru.ARCCache of inmemorySignatures hashes                              *)

MaxCacheVerifies == 3

\* Headers of height n sealed in turn, one per set of validator signatures.
CacheHeaders(n) ==
    {WithVector(h, VectorOf(h, S)) :
        S \in SignerSets, h \in SealedHeaders(n, {InTurnOf(n)})}

InitCache ==
    /\ signatures = {}
    /\ vlast = NoCall
    /\ vcount = 0
    /\ vnumber \in VerifyNumbers
    /\ accepted = {}
    /\ SignIdle /\ SnapIdle /\ FsmIdle /\ UtilIdle /\ StoreIdle
    /\ HandlerIdle /\ ShakeIdle /\ TimeIdle
    /\ GenesisIdle /\ DialIdle /\ CampaignIdle

otherThanCache ==
    <<signVars, snapVars, fsmVars, utilVars, storeVars, handlerVars, shakeVars, timeVars,
      genesisVars, dialVars, campaignVars>>

\* Dpor.VerifyHeader(chain, header, seal = true); again tells whether an earlier
\* call accepted this very header.
CacheVerify(h) ==
    /\ vcount < MaxCacheVerifies
    /\ \E r \in {verifyHeader(h, signatures, Now)} :
           /\ signatures' = r.cache
           /\ vlast' = [h |-> h, err |-> r.err, seal |-> r.seal, numSigs |-> r.numSigs,
                        again |-> h \in accepted]
           /\ accepted' = IF r.err = "nil" THEN accepted \cup {h} ELSE accepted
    /\ vcount' = vcount + 1
    /\ UNCHANGED <<vnumber, otherThanCache>>

\* The ARC cache is full and another hash is added to it (sigcache.Add in
\* ecrecover, for a header of another chain or height): the entry of hash leaves
\* the cache with every signature stored in it.
EvictSignatures(hash) ==
    /\ CacheKnown(signatures, hash)
    /\ signatures' = {e \in signatures : e.hash # hash}
    /\ UNCHANGED <<vlast, vcount, vnumber, accepted, otherThanCache>>

NextCache ==
    \/ \E h \in CacheHeaders(vnumber) : CacheVerify(h)
    \/ \E hash \in {e.hash : e \in signatures} : EvictSignatures(hash)

SpecCache == InitCache /\ [][NextCache]_vars

\* C31: the signature cache never loses a signature, so a header the quorum check
\* has accepted against the committee is accepted by every later verification.
C31_AcceptedStaysAccepted ==
    (vcount > 0 /\ vlast.again) => vlast.err = "nil"

----------------------------------------------------------------------------
(* SpecGenesis: SetupGenesisBlock calls on one chain database               *)

MaxSetups == 2

NilConfig == "nil"
MainnetChainConfig == "MainnetChainConfig"
DefaultChainConfig == "DefaultChainConfig"
ChainConfigs == {MainnetChainConfig, DefaultChainConfig, "cfgA", "cfgB"}

\* common.Hash{}: ReadCanonicalHash of a database without block 0.
NoHash == ""
MainnetGenesisHash == "main"
GenesisHashes == {MainnetGenesisHash, "g1", "g2"}

\* A *Genesis: nil, or a specification with its Config (a config or nil), its
\* Number, and the hash of the block ToBlock makes of it.
NilGenesis == [isNil |-> TRUE, Config |-> NilConfig, Number |-> 0, hash |-> NoHash]
Genesis(config, number, hash) ==
    [isNil |-> FALSE, Config |-> config, Number |-> number, hash |-> hash]
DefaultGenesisBlock == Genesis(MainnetChainConfig, 0, MainnetGenesisHash)

GenesisArgs ==
    {NilGenesis} \cup {Genesis(c, n, h) : c \in {NilConfig, "cfgA", "cfgB"},
                                          n \in {0, 1}, h \in GenesisHashes}

\* The database: the canonical hash of block 0 and the chain config stored per
\* hash (NilConfig where none is stored).
Database(stored, cfg) == [stored |-> stored, cfg |-> cfg]
NoConfigs == [h \in GenesisHashes |-> NilConfig]
Databases ==
    {Database(NoHash, NoConfigs)}
        \cup {Database(h, [NoConfigs EXCEPT ![h] = c]) :
                h \in {MainnetGenesisHash, "g1"},
                c \in {NilConfig, MainnetChainConfig, "cfgA"}}

ReadChainConfig(d, hash) == d.cfg[hash]
WriteChainConfig(d, hash, cfg) == [d EXCEPT !.cfg[hash] = cfg]

configOrDefault(g, ghash) ==
    IF ~g.isNil THEN g.Config
    ELSE IF ghash = MainnetGenesisHash THEN MainnetChainConfig
    ELSE DefaultChainConfig

\* Genesis.Commit: refuses a block of number > 0 and returns a nil block;
\* otherwise writes the block as canonical and its config, the default for nil.
Commit(g, d) ==
    IF g.Number # 0
    THEN [block |-> NoHash, isNilBlock |-> TRUE, err |-> "errNumber", db |-> d]
    ELSE [block |-> g.hash, isNilBlock |-> FALSE, err |-> "nil",
          db |-> WriteChainConfig([d EXCEPT !.stored = g.hash], g.hash,
                    IF g.Config = NilConfig THEN DefaultChainConfig ELSE g.Config)]

updateChainConfig(storedcfg, newcfg, d, stored) ==
    [cfg |-> newcfg, db |-> WriteChainConfig(d, stored, newcfg)]

SetupResult(cfg, hash, err, d) ==
    [returned |-> TRUE, cfg |-> cfg, hash |-> hash, err |-> err, db |-> d]
\* block.Hash() on the nil block of a failed Commit: a nil pointer dereference.
SetupPanic(d) ==
    [returned |-> FALSE, cfg |-> NilConfig, hash |-> NoHash, err |-> "panic", db |-> d]

SetupGenesisBlock(d, genesis) ==
    IF ~genesis.isNil /\ genesis.Config = NilConfig
    THEN SetupResult(DefaultChainConfig, NoHash, "errGenesisNoConfig", d)
    ELSE IF d.stored = NoHash
    THEN LET g == IF genesis.isNil THEN DefaultGenesisBlock ELSE genesis
             c == Commit(g, d)
         IN  IF c.isNilBlock THEN SetupPanic(c.db)
             ELSE SetupResult(g.Config, c.block, c.err, c.db)
    ELSE LET stored == d.stored
             storedCfg == ReadChainConfig(d, stored)
             newCfg == configOrDefault(genesis, stored)
             u == updateChainConfig(storedCfg, newCfg, d, stored)
         IN  IF ~genesis.isNil
             THEN IF genesis.hash # stored
                  THEN SetupResult(genesis.Config, genesis.hash, "GenesisMismatchError", d)
                  ELSE SetupResult(u.cfg, stored, "nil", u.db)
             ELSE IF stored # MainnetGenesisHash
                  THEN SetupResult(storedCfg, stored, "nil", d)
                  ELSE SetupResult(u.cfg, stored, "nil", u.db)

NoSetup == [called |-> FALSE, genesis |-> NilGenesis, before |-> Database(NoHash, NoConfigs),
            returned |-> FALSE, cfg |-> NilConfig, hash |-> NoHash, err |-> "none",
            count |-> 0]

InitGenesis ==
    /\ gdb \in Databases
    /\ glast = NoSetup
    /\ VerifyIdle /\ SignIdle /\ SnapIdle /\ FsmIdle /\ UtilIdle /\ StoreIdle
    /\ HandlerIdle /\ ShakeIdle /\ TimeIdle
    /\ CacheIdle /\ DialIdle /\ CampaignIdle

otherThanGenesis ==
    <<verifyVars, signVars, snapVars, fsmVars, utilVars, storeVars, handlerVars, shakeVars,
      timeVars, cacheVars, dialVars, campaignVars>>

SetupGenesis(genesis) ==
    /\ glast.count < MaxSetups
    /\ \E r \in {SetupGenesisBlock(gdb, genesis)} :
           /\ gdb' = r.db
           /\ glast' = [called |-> TRUE, genesis |-> genesis, before |-> gdb,
                        returned |-> r.returned, cfg |-> r.cfg, hash |-> r.hash,
                        err |-> r.err, count |-> glast.count + 1]
    /\ UNCHANGED otherThanGenesis

NextGenesis == \E genesis \in GenesisArgs : SetupGenesis(genesis)

SpecGenesis == InitGenesis /\ [][NextGenesis]_vars

\* C32: whatever the database holds (no genesis; a genesis with or without its
\* config) and whatever the argument (nil or not), the chain configuration that
\* SetupGenesisBlock returns is not nil, also when it returns an error.
C32_ConfigNeverNil ==
    (glast.called /\ glast.returned) => glast.cfg # NilConfig

----------------------------------------------------------------------------
(* SpecDial: Handler.Start, dialLoop and Handler.Stop while the chain grows  *)

MaxDialTicks == 3
MaxHead == 2

\* var block *types.Block: nil, or the block of a number.
NilBlock == [isNil |-> TRUE, number |-> 0]
BlockOf(n) == [isNil |-> FALSE, number |-> n]

NoTick == [count |-> 0, head |-> 0, prev |-> 0, first |-> FALSE, dialed |-> FALSE,
           afterStop |-> FALSE]

\* Start: dialLoop runs on a validator only.
InitDial ==
    /\ currentBlock = 0
    /\ block = NilBlock
    /\ dials = <<>>
    /\ quitSync = "open"
    /\ dialPc \in {"notStarted", "running"}
    /\ ticked = NoTick
    /\ VerifyIdle /\ SignIdle /\ SnapIdle /\ FsmIdle /\ UtilIdle /\ StoreIdle
    /\ HandlerIdle /\ ShakeIdle /\ TimeIdle
    /\ CacheIdle /\ GenesisIdle /\ CampaignIdle

otherThanDial ==
    <<verifyVars, signVars, snapVars, fsmVars, utilVars, storeVars, handlerVars, shakeVars,
      timeVars, cacheVars, genesisVars, campaignVars>>

\* The chain gets a new head.
InsertBlock ==
    /\ currentBlock < MaxHead
    /\ currentBlock' = currentBlock + 1
    /\ UNCHANGED <<block, dials, quitSync, dialPc, ticked, otherThanDial>>

\* The case <-futureTimer.C of the select.  With quitSync closed and a tick
\* pending both cases are ready and select takes either.
DialTick ==
    /\ dialPc = "running"
    /\ ticked.count < MaxDialTicks
    /\ LET blk == currentBlock
           dial == ~block.isNil /\ blk > block.number
       IN  /\ block' = IF block.isNil THEN BlockOf(blk) ELSE block
           /\ dials' = IF dial THEN Append(dials, blk) ELSE dials
           /\ ticked' = [count |-> ticked.count + 1, head |-> blk, prev |-> ticked.head,
                         first |-> block.isNil, dialed |-> dial,
                         afterStop |-> quitSync = "closed"]
    /\ UNCHANGED <<currentBlock, quitSync, dialPc, otherThanDial>>

\* Stop: close(vh.quitSync).
StopHandler ==
    /\ quitSync = "open"
    /\ quitSync' = "closed"
    /\ UNCHANGED <<currentBlock, block, dials, dialPc, ticked, otherThanDial>>

\* The case <-vh.quitSync of the select: dialLoop returns.
DialQuit ==
    /\ dialPc = "running"
    /\ quitSync = "closed"
    /\ dialPc' = "returned"
    /\ UNCHANGED <<currentBlock, block, dials, quitSync, ticked, otherThanDial>>

NextDial ==
    \/ InsertBlock
    \/ DialTick
    \/ StopHandler
    \/ DialQuit

SpecDial == InitDial /\ [][NextDial]_vars

\* C37: a tick of the dial loop starts the dialing of the committee only when the
\* head of the chain is above the head the loop saw at its tick before; a tick at
\* which the head is what it was then starts nothing, and no tick starts a dial
\* once Stop has closed quitSync.
C37_DialOnlyOnAdvance ==
    /\ (ticked.dialed /\ ~ticked.first) => ticked.head > ticked.prev
    /\ ticked.afterStop => ~ticked.dialed

----------------------------------------------------------------------------
(* SpecCampaign: the Campaign contract under calls of its candidates         *)

MaxCampaignCalls == 4
MaxClaim == 2

baseDeposit == 50
minimumRpt == 50
minimumNoc == 1
maximumNoc == 10

CampaignSenders == {"c1", "c2"}
Contract == "campaign"
\* The views a snapshot can have been written for within the calls made.
Views == 0..(MaxCampaignCalls + MaxClaim)

CandidateInfo(numOfCampaign, deposit, startViewIdx) ==
    [numOfCampaign |-> numOfCampaign, deposit |-> deposit, startViewIdx |-> startViewIdx]

\* Set.Data: the flags that are true and the array values.
SetData(flags, values) == [flags |-> flags, values |-> values]

insert(self, value) ==
    IF value \in self.flags THEN self
    ELSE SetData(self.flags \cup {value}, Append(self.values, value))

\* Set.remove: the flag is cleared and every entry of values equal to the address
\* is deleted, which leaves the zero address in its place.
remove(self, value) ==
    IF value \notin self.flags THEN self
    ELSE SetData(self.flags \ {value},
                 [i \in 1..Len(self.values) |->
                     IF self.values[i] = value THEN ZeroAddress ELSE self.values[i]])

CandidatesOf(snapshots, view_idx) == snapshots[view_idx].values

\* What a call leaves: whether it went through (no require failed), the storage
\* and the balances after it.
CallResult(ok, cands, snapshots, view, balances) ==
    [ok |-> ok, candidates |-> cands, campaignSnapshots |-> snapshots, viewIdx |-> view,
     paid |-> balances]

Reverted == CallResult(FALSE, candidates, campaignSnapshots, viewIdx, paid)

\* address.transfer(amount): wei from the balance of the contract to the address.
transfer(balances, to, amount) ==
    [balances EXCEPT ![to] = @ + amount, ![Contract] = @ - amount]

ClaimCampaign(candidate, value, num_of_campaign, rpt) ==
    IF rpt < minimumRpt THEN Reverted
    ELSE IF value # baseDeposit * num_of_campaign THEN Reverted
    ELSE LET old == candidates[candidate]
             total == old.numOfCampaign + num_of_campaign
             info == IF old.numOfCampaign = 0
                     THEN CandidateInfo(num_of_campaign, value, viewIdx)
                     ELSE CandidateInfo(total, old.deposit + value, viewIdx)
             inRange == IF old.numOfCampaign = 0
                        THEN num_of_campaign >= minimumNoc /\ num_of_campaign <= maximumNoc
                        ELSE total >= minimumNoc /\ total <= maximumNoc
         IN  IF ~inRange THEN Reverted
             ELSE CallResult(TRUE, [candidates EXCEPT ![candidate] = info],
                      [v \in Views |->
                          IF v >= info.startViewIdx /\ v < info.startViewIdx + num_of_campaign
                          THEN insert(campaignSnapshots[v], candidate)
                          ELSE campaignSnapshots[v]],
                      viewIdx, [paid EXCEPT ![Contract] = @ + value])

\* QuitCampaign: the record of the candidate is overwritten first; the transfer
\* and the loop over the views read the record after that.
QuitCampaign(candidate) ==
    IF ~(candidates[candidate].numOfCampaign > 0) THEN Reverted
    ELSE LET cleared == [candidates EXCEPT ![candidate] = CandidateInfo(0, 0, 0)]
             info == cleared[candidate]
         IN  CallResult(TRUE, cleared,
                  [v \in Views |->
                      IF v >= info.startViewIdx /\ v < info.numOfCampaign
                      THEN remove(campaignSnapshots[v], candidate)
                      ELSE campaignSnapshots[v]],
                  viewIdx, transfer(paid, candidate, info.deposit))

\* The loop of ViewChange over the candidates of the current view.
RECURSIVE viewChangeLoop(_, _, _, _)
viewChangeLoop(values, i, cands, balances) ==
    IF i > Len(values) THEN [candidates |-> cands, paid |-> balances]
    ELSE LET candidate == values[i]
         IN  IF candidate \in DOMAIN cands /\ cands[candidate].deposit >= baseDeposit
             THEN viewChangeLoop(values, i + 1,
                      [cands EXCEPT ![candidate].deposit = @ - baseDeposit],
                      transfer(balances, candidate, baseDeposit))
             ELSE viewChangeLoop(values, i + 1, cands, balances)

ViewChange ==
    LET r == viewChangeLoop(campaignSnapshots[viewIdx].values, 1, candidates, paid)
    IN  CallResult(TRUE, r.candidates, campaignSnapshots, viewIdx + 1, r.paid)

NoContractCall == [fn |-> "none", sender |-> ZeroAddress, ok |-> FALSE, deposit |-> 0,
                   received |-> 0, start |-> 0, count |-> 0, calls |-> 0]

InitCampaign ==
    /\ candidates = [c \in CampaignSenders |-> CandidateInfo(0, 0, 0)]
    /\ campaignSnapshots = [v \in Views |-> SetData({}, <<>>)]
    /\ viewIdx = 0
    /\ paid = [a \in CampaignSenders \cup {Contract} |-> 0]
    /\ clast = NoContractCall
    /\ VerifyIdle /\ SignIdle /\ SnapIdle /\ FsmIdle /\ UtilIdle /\ StoreIdle
    /\ HandlerIdle /\ ShakeIdle /\ TimeIdle
    /\ CacheIdle /\ GenesisIdle /\ DialIdle

otherThanCampaign ==
    <<verifyVars, signVars, snapVars, fsmVars, utilVars, storeVars, handlerVars, shakeVars,
      timeVars, cacheVars, genesisVars, dialVars>>

\* A transaction that calls fn from sender and leaves r; deposit, start and count
\* are what the contract recorded for the sender before the call.
Transact(fn, sender, r) ==
    /\ clast.calls < MaxCampaignCalls
    /\ candidates' = r.candidates
    /\ campaignSnapshots' = r.campaignSnapshots
    /\ viewIdx' = r.viewIdx
    /\ paid' = r.paid
    /\ clast' = [fn |-> fn, sender |-> sender, ok |-> r.ok,
                 deposit |-> candidates[sender].deposit,
                 received |-> r.paid[sender] - paid[sender],
                 start |-> candidates[sender].startViewIdx,
                 count |-> candidates[sender].numOfCampaign,
                 calls |-> clast.calls + 1]
    /\ UNCHANGED otherThanCampaign

Claim(sender, value, num_of_campaign, rpt) ==
    \E r \in {ClaimCampaign(sender, value, num_of_campaign, rpt)} :
        Transact("ClaimCampaign", sender, r)

Quit(sender) ==
    \E r \in {QuitCampaign(sender)} : Transact("QuitCampaign", sender, r)

ChangeView(sender) ==
    \E r \in {ViewChange} : Transact("ViewChange", sender, r)

NextCampaign ==
    \/ \E sender \in CampaignSenders, n \in 0..MaxClaim,
          rpt \in {minimumRpt - 1, minimumRpt}, extra \in {0, 1} :
           Claim(sender, baseDeposit * n + extra, n, rpt)
    \/ \E sender \in CampaignSenders : Quit(sender)
    \/ \E sender \in CampaignSenders : ChangeView(sender)

SpecCampaign == InitCampaign /\ [][NextCampaign]_vars

\* C40: after a QuitCampaign call of a registered candidate that went through,
\* the candidate has received the deposit the contract had recorded for it and is
\* in CandidatesOf(v) for no view v of its campaign, whatever ClaimCampaign and
\* ViewChange calls came before.
C40_QuitRefundsAndRemoves ==
    (clast.fn = "QuitCampaign" /\ clast.ok) =>
        /\ clast.received = clast.deposit
        /\ \A v \in Views :
               (v >= clast.start /\ v < clast.start + clast.count)
                   => clast.sender \notin Range(CandidatesOf(campaignSnapshots, v))
====
